---- MODULE Spec2Model ----
(***************************************************************************)
(* Bank customer-service chatbot: the conversation state machine           *)
(* (backend/conversation.py) with the components it calls into: the intent *)
(* classifier, the customer directory, the response generator, the         *)
(* security gate and the audit sink.                                       *)
(*                                                                         *)
(* Texts are TLA+ strings; Len, SubSeq and \o are the operators on them.   *)
(***************************************************************************)
EXTENDS Integers, Sequences, FiniteSets, TLC

(***************************************************************************)
(* Python str primitives                                                   *)
(***************************************************************************)
UpperChars == "ABCDEFGHIJKLMNOPQRSTUVWXYZ"
LowerChars == "abcdefghijklmnopqrstuvwxyz"
DigitChars == "0123456789"

\* the i-th character of s, as a string of length 1
CharAt(s, i) == SubSeq(s, i, i)

\* c in s, for a single character c
InChars(c, s) == \E i \in 1..Len(s) : CharAt(s, i) = c

\* str.lower() on one character
LowerChar(c) ==
    IF InChars(c, UpperChars)
    THEN CharAt(LowerChars, CHOOSE i \in 1..26 : CharAt(UpperChars, i) = c)
    ELSE c

\* str.upper() on one character
UpperChar(c) ==
    IF InChars(c, LowerChars)
    THEN CharAt(UpperChars, CHOOSE i \in 1..26 : CharAt(LowerChars, i) = c)
    ELSE c

\* the characters lo..hi of s, each mapped to upper or lower case (the range
\* is halved so that the recursion depth stays logarithmic in the length)
RECURSIVE MapRange(_, _, _, _)
MapRange(s, lo, hi, up) ==
    IF lo > hi THEN ""
    ELSE IF lo = hi
        THEN (IF up THEN UpperChar(CharAt(s, lo)) ELSE LowerChar(CharAt(s, lo)))
    ELSE LET mid == (lo + hi) \div 2
         IN  MapRange(s, lo, mid, up) \o MapRange(s, mid + 1, hi, up)

\* str.lower() and str.upper()
Lower(s) == MapRange(s, 1, Len(s), FALSE)
Upper(s) == MapRange(s, 1, Len(s), TRUE)

\* `sub in s`
Contains(s, sub) ==
    \E i \in 1..(Len(s) - Len(sub) + 1) : SubSeq(s, i, i + Len(sub) - 1) = sub

\* s[i:i+len(sub)] == sub, for a 1-based position i
StartsAt(s, i, sub) ==
    /\ i >= 1
    /\ i + Len(sub) - 1 <= Len(s)
    /\ SubSeq(s, i, i + Len(sub) - 1) = sub

\* whitespace as str.strip(), str.split() and the regex class \s see it
IsSpace(c) == c \in {" ", "\n", "\t", "\r", "\f"}

\* the regex class \w on the texts used here (ASCII letters, digits, _)
IsWordChar(c) ==
    InChars(c, UpperChars) \/ InChars(c, LowerChars) \/ InChars(c, DigitChars) \/ c = "_"

\* str.strip()
Strip(s) ==
    LET nonSpace == {i \in 1..Len(s) : ~IsSpace(CharAt(s, i))}
    IN  IF nonSpace = {} THEN ""
        ELSE SubSeq(s, CHOOSE i \in nonSpace : \A j \in nonSpace : i <= j,
                       CHOOSE i \in nonSpace : \A j \in nonSpace : i >= j)

\* len(s.split()): the number of maximal runs of non-whitespace characters
WordCount(s) ==
    Cardinality({i \in 1..Len(s) :
                    /\ ~IsSpace(CharAt(s, i))
                    /\ (i = 1 \/ IsSpace(CharAt(s, i - 1)))})

\* None
Null == "None"

\* truthiness of an Optional[str]: None and "" are falsy
Falsy(v) == v = Null \/ v = ""

\* "sep".join(seq)
RECURSIVE Join(_, _)
Join(seq, sep) ==
    IF seq = <<>> THEN ""
    ELSE IF Len(seq) = 1 THEN seq[1]
    ELSE seq[1] \o sep \o Join(Tail(seq), sep)

Max2(a, b) == IF a >= b THEN a ELSE b

(***************************************************************************)
(* config.py: static reference data                                        *)
(***************************************************************************)
CUSTOMERS ==
    [id \in {"A234763849"} |->
        [name            |-> "Tony Stark",
         dob             |-> "1996/09/10",
         id_number       |-> "A234763849",
         bank_account    |-> "6102394256679291",
         account_balance |-> "TWD 2,500,394",
         loan_balance    |-> "TWD 19,243,225",
         opening_branch  |-> "Taipei First Main Branch"]]

SERVICE_ITEMS ==
    << "24/7 Customer Support", "Account Management", "Loan Services",
       "Investment Advisory", "Credit Card Services", "Mobile Banking" >>

BRANCHES ==
    << [name    |-> "Taipei First Main Branch",
        address |-> "No. 1, Dunnan Rd, Taipei",
        phone   |-> "02-2109-5500",
        hours   |-> "Mon-Fri 9:00-17:00"],
       [name    |-> "Taipei Second Branch",
        address |-> "No. 88, Songshan Rd, Taipei",
        phone   |-> "02-2719-7000",
        hours   |-> "Mon-Fri 9:00-17:00"] >>

LOAN_PROCESS ==
    << "1. Submit application with required documents",
       "2. Credit assessment and verification",
       "3. Final approval decision",
       "4. Loan disbursement" >>

ACCOUNT_OPENING_PROCESS ==
    << "1. Visit nearest branch with valid ID",
       "2. Fill out account opening form",
       "3. Provide initial deposit (min TWD 1,000)",
       "4. Activate online banking (optional)",
       "5. Receive debit card in 7-10 business days" >>

\* the four customer-record fields a sensitive intent discloses
SENSITIVE_QUERIES ==
    {"bank_account", "account_balance", "loan_balance", "opening_branch"}

(***************************************************************************)
(* security.py                                                             *)
(***************************************************************************)
FORBIDDEN_KEYWORDS == <<"password", "pwd", "pin", "secret", "api_key", "token">>

\* the scan that compares the letters as they are written
contains_sensitive_data_CaseSensitive(text) ==
    \E k \in 1..Len(FORBIDDEN_KEYWORDS) : Contains(text, FORBIDDEN_KEYWORDS[k])

\* SecurityValidator.contains_sensitive_data
contains_sensitive_data(text) ==
    LET text_lower == Lower(text)
    IN  \E k \in 1..Len(FORBIDDEN_KEYWORDS) : Contains(text_lower, FORBIDDEN_KEYWORDS[k])

\* SecurityValidator.validate_response: the is_valid component
validate_response(text) == ~contains_sensitive_data(text)

\* InputValidator.validate_id_number: ^[A-Z]\d{9}$ on id_number.upper();
\* $ also matches before one trailing newline
validate_id_number(id_number) ==
    LET u    == Upper(id_number)
        core == IF Len(u) = 11 /\ CharAt(u, 11) = "\n" THEN SubSeq(u, 1, 10) ELSE u
    IN  /\ Len(core) = 10
        /\ InChars(CharAt(core, 1), UpperChars)
        /\ \A i \in 2..10 : InChars(CharAt(core, i), DigitChars)

\* InputValidator.validate_dob: ^\d{4}/\d{2}/\d{2}$
validate_dob(dob) ==
    LET core == IF Len(dob) = 11 /\ CharAt(dob, 11) = "\n" THEN SubSeq(dob, 1, 10) ELSE dob
    IN  /\ Len(core) = 10
        /\ \A i \in {1, 2, 3, 4, 6, 7, 9, 10} : InChars(CharAt(core, i), DigitChars)
        /\ CharAt(core, 5) = "/"
        /\ CharAt(core, 8) = "/"

dangerous_patterns == <<"DROP", "DELETE", "--", ";", "/*", "*/", "INSERT", "UPDATE">>

\* InputValidator.validate_name
validate_name(name) ==
    /\ ~(Len(name) < 2)
    /\ ~\E k \in 1..Len(dangerous_patterns) :
            Contains(Upper(name), Upper(dangerous_patterns[k]))

\* InputValidator.sanitize_input
sanitize_input(user_input) == Strip(user_input)

(***************************************************************************)
(* customer_data.py: the Customer Directory, over the records `directory`   *)
(***************************************************************************)
\* the verification that looks the record up without regard to the case of
\* the letter of the id number
verify_customer_AnyCase(directory, name, dob, id_number) ==
    IF ~validate_name(name) THEN <<FALSE, "Invalid name format">>
    ELSE IF ~validate_dob(dob)
        THEN <<FALSE, "Invalid date of birth format (use YYYY/MM/DD)">>
    ELSE IF ~validate_id_number(id_number) THEN <<FALSE, "Invalid ID number format">>
    ELSE IF Upper(id_number) \notin DOMAIN directory THEN <<FALSE, "Customer ID not found">>
    ELSE LET customer == directory[Upper(id_number)]
         IN  IF Lower(customer.name) # Lower(name) THEN <<FALSE, "Name does not match">>
             ELSE IF customer.dob # dob THEN <<FALSE, "Date of birth does not match">>
             ELSE <<TRUE, Upper(id_number)>>

\* CustomerDataManager.verify_customer: <<success, customer id or reason>>
verify_customer(directory, name, dob, id_number) ==
    IF ~validate_name(name) THEN <<FALSE, "Invalid name format">>
    ELSE IF ~validate_dob(dob)
        THEN <<FALSE, "Invalid date of birth format (use YYYY/MM/DD)">>
    ELSE IF ~validate_id_number(id_number) THEN <<FALSE, "Invalid ID number format">>
    ELSE IF id_number \notin DOMAIN directory THEN <<FALSE, "Customer ID not found">>
    ELSE LET customer == directory[id_number]
         IN  IF Lower(customer.name) # Lower(name) THEN <<FALSE, "Name does not match">>
             ELSE IF customer.dob # dob THEN <<FALSE, "Date of birth does not match">>
             ELSE IF customer.id_number # id_number
                 THEN <<FALSE, "ID number does not match">>
             ELSE <<TRUE, id_number>>

\* CustomerDataManager.get_customer_info; None is formatted as "None"
get_customer_info(directory, customer_id, field) ==
    IF customer_id \notin DOMAIN directory THEN Null
    ELSE directory[customer_id][field]

(***************************************************************************)
(* intent_classifier.py                                                    *)
(***************************************************************************)
Intent ==
    [SERVICE_ITEMS   |-> "service_items",
     BRANCH_INFO     |-> "branch_info",
     LOAN_PROCESS    |-> "loan_process",
     ACCOUNT_OPENING |-> "account_opening",
     BANK_ACCOUNT    |-> "bank_account",
     ACCOUNT_BALANCE |-> "account_balance",
     LOAN_BALANCE    |-> "loan_balance",
     OPENING_BRANCH  |-> "opening_branch",
     GENERAL_HELP    |-> "general_help",
     UNKNOWN         |-> "unknown"]

Intents == {Intent[n] : n \in DOMAIN Intent}

\* IntentClassifier.INTENT_KEYWORDS, in dictionary (insertion) order
INTENT_KEYWORDS ==
    << <<Intent.SERVICE_ITEMS,
         <<"service", "services", "what can you do", "help", "offerings",
           "products", "available services">> >>,
       <<Intent.BRANCH_INFO,
         <<"branch", "branches", "address", "location", "contact", "phone", "hours",
           "where is", "where are", "nearest branch">> >>,
       <<Intent.LOAN_PROCESS,
         <<"loan application", "apply for loan", "borrow", "application process",
           "how to apply", "apply for a loan", "loan process", "get a loan">> >>,
       <<Intent.ACCOUNT_OPENING,
         <<"account", "open", "opening", "new account", "register", "sign up",
           "how to open">> >>,
       <<Intent.BANK_ACCOUNT,
         <<"account number", "account no", "bank account", "my account">> >>,
       <<Intent.ACCOUNT_BALANCE,
         <<"balance", "how much", "available", "account balance",
           "remaining balance">> >>,
       <<Intent.LOAN_BALANCE,
         <<"loan balance", "owe", "outstanding", "debt", "loan amount">> >>,
       <<Intent.OPENING_BRANCH,
         <<"opening branch", "where opened", "which branch", "account from",
           "account opened", "opened account", "branch is my account",
           "where was my account opened", "where did i open">> >> >>

\* the regex assertion \b between the characters at positions p and p+1 of s
WordBoundary(s, p) ==
    LET w(k) == k >= 1 /\ k <= Len(s) /\ IsWordChar(CharAt(s, k))
    IN  w(p) # w(p + 1)

\* re.search(r'\b' + re.escape(keyword) + r'\b', s)
KeywordMatches(s, keyword) ==
    \E i \in 1..(Len(s) - Len(keyword) + 1) :
        /\ StartsAt(s, i, keyword)
        /\ WordBoundary(s, i - 1)
        /\ WordBoundary(s, i + Len(keyword) - 1)

\* the loop over one intent's keywords: <<score, max_keyword_len>>
RECURSIVE ScoreKeywords(_, _)
ScoreKeywords(s, keywords) ==
    IF keywords = <<>> THEN <<0, 0>>
    ELSE LET rest == ScoreKeywords(s, Tail(keywords))
             keyword_score == WordCount(Head(keywords))
         IN  IF KeywordMatches(s, Head(keywords))
             THEN <<rest[1] + keyword_score, Max2(rest[2], keyword_score)>>
             ELSE rest

\* lines 72-83 of classify: <<scores[intent], max_keyword_lengths[intent]>> for
\* the k-th intent of INTENT_KEYWORDS
IntentScores(user_input_lower) ==
    [k \in 1..Len(INTENT_KEYWORDS) |->
        ScoreKeywords(user_input_lower, INTENT_KEYWORDS[k][2])]

\* max(scores.values())
MaxScore(sc) == CHOOSE m \in {sc[k][1] : k \in DOMAIN sc} : \A k \in DOMAIN sc : sc[k][1] <= m

\* the choice that ignores the longest matched keyword: the first intent with
\* the largest score
BestIntent_FirstOfMaxScore(sc, max_score) ==
    CHOOSE k \in DOMAIN sc :
        /\ sc[k][1] = max_score
        /\ \A j \in DOMAIN sc : j < k => sc[j][1] < max_score

\* lines 89-92 of classify: among the intents with the largest score, the
\* first one with the longest matched keyword (max(list, key=...) returns the
\* first element with the largest key)
BestIntent(sc, max_score) ==
    CHOOSE k \in DOMAIN sc :
        /\ sc[k][1] = max_score
        /\ \A j \in DOMAIN sc : sc[j][1] = max_score =>
                /\ sc[j][2] <= sc[k][2]
                /\ j < k => sc[j][2] < sc[k][2]

\* the classifier that offers general help when no keyword occurs
ClassifyScores_HelpFallback(sc, max_score, words) ==
    IF max_score = 0
    THEN [intent |-> Intent.GENERAL_HELP, confidence |-> <<0, 1>>]
    ELSE [intent     |-> INTENT_KEYWORDS[BestIntent(sc, max_score)][1],
          confidence |-> <<max_score, words>>]

\* the classifier that gives up when fewer than half of the words are keywords
ClassifyScores_Threshold(sc, max_score, words) ==
    IF 2 * max_score < words
    THEN [intent |-> Intent.UNKNOWN, confidence |-> <<0, 1>>]
    ELSE [intent     |-> INTENT_KEYWORDS[BestIntent(sc, max_score)][1],
          confidence |-> <<max_score, words>>]

\* lines 85-95 of classify, from the scores and the number of words
ClassifyScores(sc, max_score, words) ==
    IF max_score = 0
    THEN [intent |-> Intent.UNKNOWN, confidence |-> <<0, 1>>]
    ELSE [intent     |-> INTENT_KEYWORDS[BestIntent(sc, max_score)][1],
          confidence |-> <<max_score, words>>]

\* classify on the lower-cased input
ClassifyLower(user_input_lower) ==
    ClassifyScores(IntentScores(user_input_lower), MaxScore(IntentScores(user_input_lower)),
                   WordCount(user_input_lower))

\* IntentClassifier.classify: the intent and the confidence as the fraction
\* <<score, number of words>> (0.0 is <<0, 1>>)
classify(user_input) == ClassifyLower(Lower(user_input))

\* IntentClassifier.is_sensitive_query
is_sensitive_query(intent) ==
    intent \in {Intent.BANK_ACCOUNT, Intent.ACCOUNT_BALANCE,
                Intent.LOAN_BALANCE, Intent.OPENING_BRANCH}

(***************************************************************************)
(* response_handler.py: the Response Generator.  A response is the         *)
(* sequence of the pieces of its f-string: the literal pieces and the      *)
(* interpolated values; ResponseText is the str the code returns.  The two *)
(* glyphs outside ASCII (the map pin and the check mark) are written "@"   *)
(* and "[ok]".                                                             *)
(***************************************************************************)
ResponseText(response) == Join(response, "")

\* ResponseHandler._format_service_items
format_service_items ==
    "Our available services are:\n"
        \o Join([i \in 1..Len(SERVICE_ITEMS) |-> "- " \o SERVICE_ITEMS[i]], "\n")

\* ResponseHandler._format_branch_info
format_branch_info ==
    "Our branches:\n\n"
        \o Join([i \in 1..Len(BRANCHES) |->
                    "@ " \o BRANCHES[i].name \o "\n"
                    \o "   Address: " \o BRANCHES[i].address \o "\n"
                    \o "   Phone: " \o BRANCHES[i].phone \o "\n"
                    \o "   Hours: " \o BRANCHES[i].hours], "\n\n")

\* ResponseHandler._format_loan_process
format_loan_process ==
    "Loan Application Process:\n" \o Join(LOAN_PROCESS, "\n")
        \o "\n\nFor more details, please visit our website or contact your nearest branch."

\* ResponseHandler._format_account_opening
format_account_opening ==
    "Account Opening Process:\n" \o Join(ACCOUNT_OPENING_PROCESS, "\n")
        \o "\n\nFor assistance, please visit your nearest branch."

\* ResponseHandler._format_general_help
format_general_help ==
    "Hello! I'm your bank customer service assistant. I can help you with:\n"
        \o "1. Service items and offerings\n"
        \o "2. Branch locations and contact information\n"
        \o "3. Loan application process\n"
        \o "4. Account opening process\n"
        \o "5. Account information (with verification)\n\n"
        \o "How can I assist you today?"

\* ResponseHandler._handle_public_query
handle_public_query(intent) ==
    IF intent = Intent.SERVICE_ITEMS THEN <<format_service_items>>
    ELSE IF intent = Intent.BRANCH_INFO THEN <<format_branch_info>>
    ELSE IF intent = Intent.LOAN_PROCESS THEN <<format_loan_process>>
    ELSE IF intent = Intent.ACCOUNT_OPENING THEN <<format_account_opening>>
    ELSE IF intent = Intent.GENERAL_HELP THEN <<format_general_help>>
    ELSE << "I'm sorry, I didn't understand your question. "
            \o "I can help you with:\n"
            \o "- Service items available\n"
            \o "- Branch locations and contact information\n"
            \o "- Loan application process\n"
            \o "- Account opening process\n"
            \o "- Account-related information (with verification)" >>

\* ResponseHandler._handle_sensitive_query
handle_sensitive_query(directory, intent, customer_id) ==
    IF intent = Intent.BANK_ACCOUNT
    THEN <<"Your bank account number is: ",
           get_customer_info(directory, customer_id, "bank_account")>>
    ELSE IF intent = Intent.ACCOUNT_BALANCE
    THEN <<"Your current account balance is: ",
           get_customer_info(directory, customer_id, "account_balance")>>
    ELSE IF intent = Intent.LOAN_BALANCE
    THEN <<"Your current loan balance is: ",
           get_customer_info(directory, customer_id, "loan_balance")>>
    ELSE IF intent = Intent.OPENING_BRANCH
    THEN <<"Your account was opened at: ",
           get_customer_info(directory, customer_id, "opening_branch")>>
    ELSE <<"Unable to process your request.">>

\* the handler that answers a sensitive query whether or not an identity is
\* supplied
handle_query_Ungated(directory, intent, verified_customer_id) ==
    IF is_sensitive_query(intent)
    THEN handle_sensitive_query(directory, intent, verified_customer_id)
    ELSE handle_public_query(intent)

\* ResponseHandler.handle_query
handle_query(directory, intent, verified_customer_id) ==
    IF is_sensitive_query(intent)
    THEN IF Falsy(verified_customer_id)
         THEN << "For security reasons, I need to verify your identity first. "
                 \o "Please provide your name, date of birth (YYYY/MM/DD), and ID number." >>
         ELSE handle_sensitive_query(directory, intent, verified_customer_id)
    ELSE handle_public_query(intent)

\* SecurityValidator.validate_response: the tuple (is_valid, error_message)
validate_response_result(response) ==
    IF contains_sensitive_data(response)
    THEN <<FALSE, "Response contains forbidden sensitive information">>
    ELSE <<TRUE, Null>>

(***************************************************************************)
(* conversation.py: parsing of a verification claim                        *)
(***************************************************************************)
\* every position from a to b of s is whitespace (\s)
AllSpace(s, a, b) == \A i \in a..b : IsSpace(CharAt(s, i))

\* the lookahead (?=\s*(?:other1|other2|$)) holds at position j of s; ls is
\* s in lower case (re.IGNORECASE)
LookAhead(s, ls, j, others) ==
    \E k \in 0..(Len(s) + 1 - j) :
        /\ AllSpace(s, j, j + k - 1)
        /\ \/ j + k = Len(s) + 1
           \/ \E o \in others : StartsAt(ls, j + k, o)

\* the ways label + r'\s*([^,\n]+?)(?=\s*(?:other1|other2|$))' matches s:
\* <<q, w, e>> where the label ends before position q, \s* takes w characters
\* and the group is s[q+w..e]
LabelMatches(s, ls, label, others) ==
    {m \in {q \in 1..(Len(s) + 1) : StartsAt(ls, q - Len(label), label)}
                \X (0..Len(s)) \X (1..Len(s)) :
        /\ m[1] + m[2] <= m[3]
        /\ AllSpace(s, m[1], m[1] + m[2] - 1)
        /\ \A i \in (m[1] + m[2])..m[3] : CharAt(s, i) \notin {",", "\n"}
        /\ LookAhead(s, ls, m[3] + 1, others)}

\* the match re.search reports: the leftmost label; \s* is greedy and gives
\* back under backtracking; the group is lazy.  [found, group(1)]
FirstMatch(s, matches) ==
    IF matches = {} THEN [found |-> FALSE, group |-> Null]
    ELSE LET m == CHOOSE x \in matches : \A y \in matches :
                    \/ x[1] < y[1]
                    \/ x[1] = y[1] /\ x[2] > y[2]
                    \/ x[1] = y[1] /\ x[2] = y[2] /\ x[3] <= y[3]
         IN  [found |-> TRUE, group |-> SubSeq(s, m[1] + m[2], m[3])]

\* re.search(label + r'\s*([^,\n]+?)(?=\s*(?:other1|other2|$))', s, re.IGNORECASE)
LabelSearch(s, label, others) ==
    FirstMatch(s, LabelMatches(s, Lower(s), label, others))

\* match.group(1).strip() if match else None
GroupOrNone(match) == IF match.found THEN Strip(match.group) ELSE Null

\* the k-th of the positions `seps` in increasing order, with 0 before the
\* first and n + 1 after the last
SeparatorAt(seps, k, n) ==
    IF k = 0 THEN 0
    ELSE IF k = Cardinality(seps) + 1 THEN n + 1
    ELSE CHOOSE i \in seps : Cardinality({j \in seps : j < i}) = k - 1

\* the pieces of s between the separators at positions `seps`, each stripped
PartsBetween(s, seps) ==
    [k \in 1..(Cardinality(seps) + 1) |->
        Strip(SubSeq(s, SeparatorAt(seps, k - 1, Len(s)) + 1,
                        SeparatorAt(seps, k, Len(s)) - 1))]

\* [p.strip() for p in s.replace('\n', ',').split(',')]
SplitParts(s) == PartsBetween(s, {i \in 1..Len(s) : CharAt(s, i) \in {",", "\n"}})

\* lines 119-124 of _handle_verification_input: the positional pass fills the
\* fields the labeled pass left empty, if there are at least three parts
FillFromParts(name, dob, id_number, parts) ==
    IF (Falsy(name) \/ Falsy(dob) \/ Falsy(id_number)) /\ Len(parts) >= 3
    THEN [name      |-> IF Falsy(name) THEN parts[1] ELSE name,
          dob       |-> IF Falsy(dob) THEN parts[2] ELSE dob,
          id_number |-> IF Falsy(id_number) THEN parts[3] ELSE id_number]
    ELSE [name |-> name, dob |-> dob, id_number |-> id_number]

\* lines 104-124 of _handle_verification_input: the (name, dob, id_number)
\* after the labeled pass and the positional pass; None is Null
ParseClaim(user_input) ==
    FillFromParts(GroupOrNone(LabelSearch(user_input, "name:", {"dob:", "id:"})),
                  GroupOrNone(LabelSearch(user_input, "dob:", {"name:", "id:"})),
                  GroupOrNone(LabelSearch(user_input, "id:", {"name:", "dob:"})),
                  SplitParts(user_input))

\* the count of missing fields that looks at the name only
MissingFields_NameOnly(claim) == IF Falsy(claim.name) THEN 3 ELSE 0

\* sum([not name, not dob, not id_number])
MissingFields(claim) ==
    (IF Falsy(claim.name) THEN 1 ELSE 0) + (IF Falsy(claim.dob) THEN 1 ELSE 0)
        + (IF Falsy(claim.id_number) THEN 1 ELSE 0)

(***************************************************************************)
(* audit_logger.py: the audit sink.  An event is the dict log_event builds *)
(* (a key the code leaves out is Null here); the timestamp is left out.    *)
(***************************************************************************)
AuditEventType ==
    [SESSION_CREATED       |-> "session_created",
     SESSION_DELETED       |-> "session_deleted",
     VERIFICATION_ATTEMPT  |-> "verification_attempt",
     VERIFICATION_SUCCESS  |-> "verification_success",
     VERIFICATION_FAILURE  |-> "verification_failure",
     SENSITIVE_DATA_ACCESS |-> "sensitive_data_access"]

\* AuditLogger._redact_id
redact_id(customer_id) ==
    IF Falsy(customer_id) \/ Len(customer_id) < 4 THEN "[redacted]"
    ELSE SubSeq(customer_id, 1, 2) \o "***"
            \o SubSeq(customer_id, Len(customer_id) - 1, Len(customer_id))

\* AuditLogger._redact_session
redact_session(session_id) ==
    IF Falsy(session_id) \/ Len(session_id) < 8 THEN "[redacted]"
    ELSE SubSeq(session_id, 1, 4) \o "..."
            \o SubSeq(session_id, Len(session_id) - 3, Len(session_id))

\* AuditLogger.log_event: the event appended to the audit log
log_event(event_type, user_id, session_id, ip_address, details) ==
    [event_type |-> event_type,
     success    |-> TRUE,
     user_id    |-> IF Falsy(user_id) THEN Null ELSE redact_id(user_id),
     session_id |-> IF Falsy(session_id) THEN Null ELSE redact_session(session_id),
     ip_address |-> IF Falsy(ip_address) THEN Null ELSE ip_address,
     details    |-> details]

\* AuditLogger.log_sensitive_access
log_sensitive_access(user_id, session_id, ip_address, data_type) ==
    log_event(AuditEventType.SENSITIVE_DATA_ACCESS, user_id, session_id, ip_address,
              [data_type |-> data_type])

(***************************************************************************)
(* Inputs of the model                                                     *)
(***************************************************************************)
\* the longest conversation explored (number of process_message calls)
MaxTurns == 6

\* the messages a client sends: a public query, two sensitive queries, a text
\* with no keyword, the claim of the stored customer and a well-formed claim
\* of somebody who is not in the directory
Messages ==
    { " What services do you offer?\n",
      "What is my account balance?",
      "Where was my account opened?",
      "hello",
      "Tony Stark, 1996/09/10, A234763849",
      "John Doe, 1990/01/01, B123456789" }

\* the messages of the conversations about varied reference data
RefDataMessages ==
    { "Where was my account opened?",
      "What is my account balance?",
      "Tony Stark, 1996/09/10, A234763849",
      "Where are your branches?" }

\* the longest conversation explored with partial and malformed claims
MaxClaimTurns == 5

\* a sensitive query and the claims sent in reply: two and one field missing,
\* a malformed date of birth, name and id number, the stored id number with
\* its letter in lower case, and the stored customer's claim in labeled form
ClaimMessages ==
    { "What is my account balance?",
      "Name: Tony Stark",
      "Tony Stark, 1996/09/10,",
      "Tony Stark, 1996-09-10, A234763849",
      "T, 1996/09/10, A234763849",
      "Tony Stark, 1996/09/10, 234763849",
      "Tony Stark, 1996/09/10, a234763849",
      "Name: Tony Stark DOB: 1996/09/10 ID: A234763849" }

\* a directory whose customer opened the account at the Pinglin branch
PINGLIN_CUSTOMERS ==
    [CUSTOMERS EXCEPT !["A234763849"].opening_branch = "Taipei Pinglin Branch"]

\* the reference data a deployment may load
Directories == {CUSTOMERS, PINGLIN_CUSTOMERS}

\* the session identifier the transport layer issued (str(uuid.uuid4()))
SessionId == "0f8fad5b-d9cb-469f-a165-70867728950e"

\* the identifiers create_session_id may issue to the sessions of the service
SessionIds == {SessionId, "7c9e6679-7425-40de-944b-e07fc1f90ae7"}

\* the number of chat requests the service receives
MaxRequests == 2

\* the messages of the chat requests: a sensitive query, the claim of the
\* stored customer and a blank message
ServiceMessages ==
    { "What is my account balance?",
      "Tony Stark, 1996/09/10, A234763849",
      " " }

\* the character '\x00', in the notation of the source: a string of this
\* language cannot hold the character itself, and no other message of the
\* model holds these four characters
NUL == "\\x00"

\* ten copies of a text
Repeat10(s) == s \o s \o s \o s \o s \o s \o s \o s \o s \o s

\* the shortest message over RequestValidator.MAX_MESSAGE_LENGTH: 5001 letters
LongMessage == Repeat10(Repeat10(Repeat10("aaaaa"))) \o "a"

\* the messages of the chat requests to the store: a sensitive query, a blank
\* message, a message over the length limit and the query with a NUL
\* character
StoreMessages ==
    { "What is my account balance?",
      " ",
      LongMessage,
      "What is my account balance?" \o NUL }

\* the turns of a session whose messages are classified in Idle
MaxIntentTurns == 2

\* a public query, a sensitive query, a text with no keyword and a request
\* for general help
IntentMessages ==
    { " What services do you offer?\n",
      "What is my account balance?",
      "hello",
      "general help" }

\* the turns of a session that is sent a claim in both of its forms
MaxFormTurns == 3

\* the (name, dob, id) values a client may put into a claim, none with a
\* comma, a newline or a field marker: the stored customer's, the name in
\* lower case, another name, a malformed date, the id in lower case, and each
\* of the three left empty
ClaimValues ==
    { <<"Tony Stark", "1996/09/10", "A234763849">>,
      <<"tony stark", "1996/09/10", "A234763849">>,
      <<"Pepper Potts", "1996/09/10", "A234763849">>,
      <<"Tony Stark", "1996-09-10", "A234763849">>,
      <<"Tony Stark", "1996/09/10", "a234763849">>,
      <<"", "1996/09/10", "A234763849">>,
      <<"Tony Stark", "", "A234763849">>,
      <<"Tony Stark", "1996/09/10", "">> }

\* the labeled form of a claim: "Name: n DOB: d ID: i"
LabeledForm(v) == "Name: " \o v[1] \o " DOB: " \o v[2] \o " ID: " \o v[3]

\* the comma-separated form of a claim: "n, d, i"
CommaForm(v) == v[1] \o ", " \o v[2] \o ", " \o v[3]

\* a sensitive query, every claim in both forms, and two messages that give
\* the name by its label and another name by position
FormMessages ==
    { "What is my account balance?",
      "Pepper Potts, 1996/09/10, A234763849\nName: Tony Stark",
      "Pepper Potts, 1996/09/10, A234763849 Name: Tony Stark" }
    \cup {LabeledForm(v) : v \in ClaimValues} \cup {CommaForm(v) : v \in ClaimValues}

AllMessages ==
    Messages \cup RefDataMessages \cup ClaimMessages \cup FormMessages \cup IntentMessages

(***************************************************************************)
(* The pure functions below are tabulated once over the inputs of the      *)
(* model; the actions look the results up.                                 *)
(***************************************************************************)
UserMessages == {sanitize_input(m) : m \in AllMessages}

SanitizeTable == [m \in AllMessages |-> sanitize_input(m)]
ClassifyTable == [u \in UserMessages |-> classify(u)]
ClaimTable    == [u \in UserMessages |-> ParseClaim(u)]
VerifyTable ==
    [c \in Directories |->
        [u \in {x \in UserMessages : MissingFields(ClaimTable[x]) = 0} |->
            verify_customer(c, ClaimTable[u].name, ClaimTable[u].dob,
                            ClaimTable[u].id_number)]]
GateTable ==
    [r \in UNION {{handle_query(c, i, v) : i \in Intents, v \in {Null} \cup DOMAIN c} :
                    c \in Directories} |->
        validate_response(ResponseText(r))]

(***************************************************************************)
(* conversation.py: ConversationSession                                    *)
(***************************************************************************)
max_verification_attempts == 3

\* ConversationSession.__init__
NewSession(session_id) ==
    [session_id            |-> session_id,
     verified_customer_id  |-> Null,
     verification_attempts |-> 0,
     pending_intent        |-> Null,
     conversation_history  |-> <<>>]

\* ConversationSession.is_verification_pending
is_verification_pending(s) ==
    s.pending_intent # Null /\ s.verified_customer_id = Null

\* Intent.name of an intent
IntentName(intent) == CHOOSE n \in DOMAIN Intent : Intent[n] = intent

UnknownResponse ==
    << "I'm sorry, I didn't understand that. Could you please rephrase your question? "
       \o "I can help you with service information, branch details, loan/account processes, "
       \o "or account information." >>

VerificationPrompt ==
    << "For security reasons, I need to verify your identity before providing "
       \o "sensitive information.\n\n"
       \o "Please provide the following details:\n"
       \o "1. Your full name\n"
       \o "2. Your date of birth (YYYY/MM/DD)\n"
       \o "3. Your ID number" >>

ErrorResponse == <<"An error occurred while processing your request. Please try again.">>

LockoutResponse ==
    << "Verification failed. For security reasons, I'm unable to proceed. "
       \o "Please contact our support team or visit a branch." >>

MissingFieldsResponse(remaining) ==
    << "Please provide all required information. You still need to provide ",
       ToString(remaining),
       " more field(s).\nFormat: Name, Date of Birth (YYYY/MM/DD), ID Number\n"
       \o "Or use labeled format: Name: [name] DOB: [date] ID: [id]" >>

FailureResponse(result, attempts_remaining) ==
    << "Verification failed: ", result,
       "\nAttempts remaining: ", ToString(attempts_remaining),
       "\nPlease try again with correct information." >>

SuccessPrefix == "[ok] Identity verified successfully!\n\n"

\* the budget check taken one attempt too late
AttemptsExceeded_OffByOne(verification_attempts) ==
    verification_attempts > max_verification_attempts + 1

\* line 93: the attempt just counted is beyond the budget
AttemptsExceeded(verification_attempts) ==
    verification_attempts > max_verification_attempts

\* the failure path that computes the remaining attempts from the count
\* before this attempt
VerificationFailed_StaleCount(s, result) ==
    [session  |-> s,
     response |-> FailureResponse(result,
                      max_verification_attempts - (s.verification_attempts - 1)),
     audit    |-> <<>>]

\* the failure path that sends the lockout message but keeps the intent pending
VerificationFailed_KeepPending(s, result) ==
    [session  |-> s,
     response |-> IF max_verification_attempts - s.verification_attempts > 0
                  THEN FailureResponse(result,
                           max_verification_attempts - s.verification_attempts)
                  ELSE LockoutResponse,
     audit    |-> <<>>]

\* the failure path that reports "Attempts remaining: 0" instead of locking out
VerificationFailed_NoLockout(s, result) ==
    LET attempts_remaining == max_verification_attempts - s.verification_attempts
        event == log_event(AuditEventType.VERIFICATION_FAILURE, Null, s.session_id, Null,
                           [attempts           |-> s.verification_attempts,
                            attempts_remaining |-> attempts_remaining,
                            reason             |-> result])
    IN  IF attempts_remaining >= 0
        THEN [session  |-> s,
              response |-> FailureResponse(result, attempts_remaining),
              audit    |-> <<event>>]
        ELSE [session  |-> [s EXCEPT !.pending_intent = Null],
              response |-> LockoutResponse,
              audit    |-> <<event>>]

\* the failure path that starts the count again after a lockout
VerificationFailed_ForgetsOnLockout(s, result) ==
    LET attempts_remaining == max_verification_attempts - s.verification_attempts
        event == log_event(AuditEventType.VERIFICATION_FAILURE, Null, s.session_id, Null,
                           [attempts           |-> s.verification_attempts,
                            attempts_remaining |-> attempts_remaining,
                            reason             |-> result])
    IN  IF attempts_remaining > 0
        THEN [session  |-> s,
              response |-> FailureResponse(result, attempts_remaining),
              audit    |-> <<event>>]
        ELSE [session  |-> [s EXCEPT !.pending_intent = Null,
                                     !.verification_attempts = 0],
              response |-> LockoutResponse,
              audit    |-> <<event>>]

\* lines 137-160 of _handle_verification_input: verify_customer failed with
\* reason `result`
VerificationFailed(s, result) ==
    LET attempts_remaining == max_verification_attempts - s.verification_attempts
        event == log_event(AuditEventType.VERIFICATION_FAILURE, Null, s.session_id, Null,
                           [attempts           |-> s.verification_attempts,
                            attempts_remaining |-> attempts_remaining,
                            reason             |-> result])
    IN  IF attempts_remaining > 0
        THEN [session  |-> s,
              response |-> FailureResponse(result, attempts_remaining),
              audit    |-> <<event>>]
        ELSE [session  |-> [s EXCEPT !.pending_intent = Null],
              response |-> LockoutResponse,
              audit    |-> <<event>>]

\* the success path that keeps the customer id in a local variable instead of
\* the session attribute
VerificationSucceeded_LocalId(directory, s, result) ==
    LET s1 == [s EXCEPT !.verification_attempts = 0]
        event == log_event(AuditEventType.VERIFICATION_SUCCESS, result, s1.session_id, Null,
                           [attempts |-> s1.verification_attempts])
        intent == s1.pending_intent
        s2 == [s1 EXCEPT !.pending_intent = Null]
        response == handle_query(directory, intent, result)
    IN  [session  |-> s2,
         response |-> <<SuccessPrefix>> \o response,
         audit    |-> <<event>>]

\* the success path that does not reset the attempt count
VerificationSucceeded_KeepAttempts(directory, s, result) ==
    LET s1 == [s EXCEPT !.verified_customer_id = result]
        event == log_event(AuditEventType.VERIFICATION_SUCCESS, result, s1.session_id, Null,
                           [attempts |-> s1.verification_attempts])
        intent == s1.pending_intent
        s2 == [s1 EXCEPT !.pending_intent = Null]
        response == handle_query(directory, intent, s2.verified_customer_id)
    IN  [session  |-> s2,
         response |-> <<SuccessPrefix>> \o response,
         audit    |-> <<event>>]

\* the success path that leaves the intent pending
VerificationSucceeded_KeepPending(directory, s, result) ==
    LET s1 == [s EXCEPT !.verified_customer_id = result,
                        !.verification_attempts = 0]
        event == log_event(AuditEventType.VERIFICATION_SUCCESS, result, s1.session_id, Null,
                           [attempts |-> s1.verification_attempts])
        response == handle_query(directory, s1.pending_intent, s1.verified_customer_id)
    IN  [session  |-> s1,
         response |-> <<SuccessPrefix>> \o response,
         audit    |-> <<event>>]

\* lines 162-178 of _handle_verification_input: verify_customer succeeded with
\* customer id `result`
VerificationSucceeded(directory, s, result) ==
    LET s1 == [s EXCEPT !.verified_customer_id = result,
                        !.verification_attempts = 0]
        event == log_event(AuditEventType.VERIFICATION_SUCCESS, result, s1.session_id, Null,
                           [attempts |-> s1.verification_attempts])
        intent == s1.pending_intent
        s2 == [s1 EXCEPT !.pending_intent = Null]
        response == handle_query(directory, intent, s2.verified_customer_id)
    IN  [session  |-> s2,
         response |-> <<SuccessPrefix>> \o response,
         audit    |-> <<event>>]

\* lines 93-178 of _handle_verification_input: the attempt is counted in s1
check_claim(directory, s1, user_input) ==
    LET claim == ClaimTable[user_input]
    IN  IF AttemptsExceeded(s1.verification_attempts)
        THEN [session  |-> [s1 EXCEPT !.pending_intent = Null],
              response |-> LockoutResponse,
              audit    |-> <<>>]
        ELSE IF MissingFields(claim) > 0
        THEN [session  |-> s1,
              response |-> MissingFieldsResponse(MissingFields(claim)),
              audit    |-> <<>>]
        ELSE LET verdict == VerifyTable[directory][user_input]
             IN  IF ~verdict[1]
                 THEN VerificationFailed(s1, verdict[2])
                 ELSE VerificationSucceeded(directory, s1, verdict[2])

\* ConversationSession._handle_verification_input
handle_verification_input(directory, s, user_input) ==
    check_claim(directory, [s EXCEPT !.verification_attempts = @ + 1], user_input)

\* the gate that asks for verification on every sensitive query
NeedsVerification_Always(intent, verified_customer_id) ==
    is_sensitive_query(intent)

\* lines 52-53 of process_message: a sensitive query of an unverified session
NeedsVerification(intent, verified_customer_id) ==
    is_sensitive_query(intent) /\ Falsy(verified_customer_id)

\* lines 76-79 of process_message: the security gate on a generated response
GateResponse(response) == IF ~GateTable[response] THEN ErrorResponse ELSE response

\* the answer that forgets the verified customer after a public query
answer_query_ForgetsIdentity(directory, s, intent) ==
    [session  |-> IF is_sensitive_query(intent) THEN s
                  ELSE [s EXCEPT !.verified_customer_id = Null],
     response |-> GateResponse(handle_query(directory, intent, s.verified_customer_id)),
     audit    |-> IF is_sensitive_query(intent) /\ ~Falsy(s.verified_customer_id)
                  THEN <<log_sensitive_access(s.verified_customer_id, s.session_id,
                                              "unknown", IntentName(intent))>>
                  ELSE <<>>]

\* lines 66-81 of process_message: generate, audit and gate the response
answer_query(directory, s, intent) ==
    [session  |-> s,
     response |-> GateResponse(handle_query(directory, intent, s.verified_customer_id)),
     audit    |-> IF is_sensitive_query(intent) /\ ~Falsy(s.verified_customer_id)
                  THEN <<log_sensitive_access(s.verified_customer_id, s.session_id,
                                              "unknown", IntentName(intent))>>
                  ELSE <<>>]

\* the handler that starts the session over when it does not understand
handle_intent_StartOver(directory, s, intent) ==
    IF intent = Intent.UNKNOWN
    THEN [session  |-> [s EXCEPT !.verified_customer_id = Null,
                                 !.verification_attempts = 0,
                                 !.pending_intent = Null],
          response |-> UnknownResponse,
          audit    |-> <<>>]
    ELSE IF NeedsVerification(intent, s.verified_customer_id)
    THEN [session  |-> [s EXCEPT !.pending_intent = intent],
          response |-> VerificationPrompt,
          audit    |-> <<>>]
    ELSE answer_query(directory, s, intent)

\* the handler that charges the verification prompt as an attempt
handle_intent_CountsPrompt(directory, s, intent) ==
    IF intent = Intent.UNKNOWN
    THEN [session |-> s, response |-> UnknownResponse, audit |-> <<>>]
    ELSE IF NeedsVerification(intent, s.verified_customer_id)
    THEN [session  |-> [s EXCEPT !.pending_intent = intent,
                                 !.verification_attempts = @ + 1],
          response |-> VerificationPrompt,
          audit    |-> <<>>]
    ELSE answer_query(directory, s, intent)

\* lines 43-81 of process_message: the message was classified as `intent`
handle_intent(directory, s, intent) ==
    IF intent = Intent.UNKNOWN
    THEN [session |-> s, response |-> UnknownResponse, audit |-> <<>>]
    ELSE IF NeedsVerification(intent, s.verified_customer_id)
    THEN [session  |-> [s EXCEPT !.pending_intent = intent],
          response |-> VerificationPrompt,
          audit    |-> <<>>]
    ELSE answer_query(directory, s, intent)

\* lines 41-81 of process_message: a message that is not verification input
handle_classified_message(directory, s, user_message) ==
    handle_intent(directory, s, ClassifyTable[user_message].intent)

\* the dispatch that answers a public query at once even while verification
\* input is awaited
dispatch_message_PublicFirst(directory, s, user_message) ==
    IF /\ s.pending_intent # Null /\ is_verification_pending(s)
       /\ \/ ClassifyTable[user_message].intent = Intent.UNKNOWN
          \/ is_sensitive_query(ClassifyTable[user_message].intent)
    THEN handle_verification_input(directory, s, user_message)
    ELSE handle_classified_message(directory, s, user_message)

\* the dispatch that keeps refusing once the attempt budget is spent
dispatch_message_LockedForGood(directory, s, user_message) ==
    IF s.pending_intent # Null /\ is_verification_pending(s)
    THEN handle_verification_input(directory, s, user_message)
    ELSE IF s.verification_attempts >= max_verification_attempts
    THEN [session |-> s, response |-> LockoutResponse, audit |-> <<>>]
    ELSE handle_classified_message(directory, s, user_message)

\* lines 36-41 of process_message: verification input or a new query
dispatch_message(directory, s, user_message) ==
    IF s.pending_intent # Null /\ is_verification_pending(s)
    THEN handle_verification_input(directory, s, user_message)
    ELSE handle_classified_message(directory, s, user_message)

\* the recorder that leaves the assistant text of a lockout turn empty
record_response_SkipLockout(out) ==
    [session  |-> [out.session EXCEPT
                     !.conversation_history[Len(out.session.conversation_history)] =
                          [user |-> @.user,
                           assistant |-> IF out.response = LockoutResponse
                                         THEN <<>> ELSE out.response]],
     response |-> out.response,
     audit    |-> out.audit]

\* conversation_history[-1]["assistant"] = response, on every return path
record_response(out) ==
    [session  |-> [out.session EXCEPT
                     !.conversation_history[Len(out.session.conversation_history)] =
                          [user |-> @.user, assistant |-> out.response]],
     response |-> out.response,
     audit    |-> out.audit]

\* lines 34-81 of process_message, on the sanitized message
handle_user_message(directory, s, user_message) ==
    record_response(
        dispatch_message(directory,
                         [s EXCEPT !.conversation_history =
                                        Append(@, [user |-> user_message])],
                         user_message))

\* ConversationSession.process_message: the session after the call, the
\* response returned and the audit events emitted
process_message(directory, s, message) ==
    handle_user_message(directory, s, SanitizeTable[message])

\* the reset that leaves the attempt count as it is
reset_verification_KeepAttempts(s) ==
    [s EXCEPT !.verified_customer_id = Null,
              !.pending_intent = Null]

\* ConversationSession.reset_verification
reset_verification(s) ==
    [s EXCEPT !.verified_customer_id = Null,
              !.verification_attempts = 0,
              !.pending_intent = Null]

(***************************************************************************)
(* The state machine: one session, the directory it reads and the audit    *)
(* log                                                                     *)
(***************************************************************************)
VARIABLES
    session,        \* the ConversationSession object
    customers,      \* config.CUSTOMERS as loaded at startup
    audit_log,      \* the events handed to the audit sink, oldest first
    SESSION_STORE,  \* the keys of app.SESSION_STORE
    sessions,       \* the ConversationSession objects the service created, by id
    requests,       \* the chat requests of the service, each with its locals
    call            \* the last direct call of a component function, with its result

vars == <<session, customers, audit_log, SESSION_STORE, sessions, requests, call>>

service == <<SESSION_STORE, sessions, requests>>

\* the service before its first request
NoService ==
    /\ SESSION_STORE = {}
    /\ sessions = <<>>
    /\ requests = <<>>

Init ==
    /\ session = NewSession(SessionId)
    /\ customers = CUSTOMERS
    /\ audit_log = <<>>
    /\ NoService
    /\ call = [fn |-> Null]

\* the call returned `out`: the session is mutated and the audit events are
\* written
Returned(out) ==
    /\ session' = out.session
    /\ audit_log' = audit_log \o out.audit

\* a client sends `message` and process_message handles it
ProcessMessage(message) ==
    /\ Len(session.conversation_history) < MaxTurns
    /\ Returned(process_message(customers, session, message))
    /\ UNCHANGED <<customers, service, call>>

\* the caller resets the verification status
ResetVerification ==
    /\ session' = reset_verification(session)
    /\ UNCHANGED <<customers, audit_log, service, call>>

Next ==
    \/ \E message \in Messages : ProcessMessage(message)
    \/ ResetVerification

Spec == Init /\ [][Next]_vars

\* the same session over reference data that a deployment may load
InitRefData ==
    /\ session = NewSession(SessionId)
    /\ customers \in Directories
    /\ audit_log = <<>>
    /\ NoService
    /\ call = [fn |-> Null]

NextRefData ==
    \/ \E message \in RefDataMessages : ProcessMessage(message)
    \/ ResetVerification

SpecRefData == InitRefData /\ [][NextRefData]_vars

\* the same session, sent partial and malformed claims
ClaimTurn(message) ==
    /\ Len(session.conversation_history) < MaxClaimTurns
    /\ ProcessMessage(message)

NextClaims ==
    \/ \E message \in ClaimMessages : ClaimTurn(message)
    \/ ResetVerification

SpecClaims == Init /\ [][NextClaims]_vars

\* the same session, sent claims in the labeled and the comma-separated form
FormTurn(message) ==
    /\ Len(session.conversation_history) < MaxFormTurns
    /\ ProcessMessage(message)

NextForms ==
    \/ \E message \in FormMessages : FormTurn(message)
    \/ ResetVerification

SpecForms == Init /\ [][NextForms]_vars

(***************************************************************************)
(* app.py: the service.  Sessions are objects kept in SESSION_STORE; a    *)
(* chat request runs on a thread of its own (app.run serves threaded) and  *)
(* calls process_message on the session object without holding any lock,   *)
(* so the steps of two requests interleave wherever a thread switch can    *)
(* happen: between the statements of process_message and inside the        *)
(* read-modify-write of `self.verification_attempts += 1`.                 *)
(***************************************************************************)
\* the address of the client (request.remote_addr)
RemoteAddr == "127.0.0.1"

\* RequestValidator.MAX_MESSAGE_LENGTH
MAX_MESSAGE_LENGTH == 5000

\* the validation that looks at the length only
validate_message_LengthOnly(message) ==
    /\ ~Falsy(message)
    /\ Len(message) <= MAX_MESSAGE_LENGTH

\* RequestValidator.validate_message: the is_valid component
validate_message(message) ==
    /\ ~Falsy(message)
    /\ Len(message) <= MAX_MESSAGE_LENGTH
    /\ ~Contains(message, NUL)

\* message.strip() for the messages of the chat requests
StripTable == [message \in ServiceMessages \cup StoreMessages |-> Strip(message)]

\* the locals of the thread that serves a chat request
NewRequest(session_id, message, pc, status) ==
    [session_id   |-> session_id,
     message      |-> message,
     user_message |-> Null,
     attempts     |-> Null,
     response     |-> Null,
     pc           |-> pc,
     status       |-> status]

\* the admission that looks the session up among the objects ever created,
\* so that a deleted session is still served
ReceivedRequest_KeepsDeleted(store, session_id, message) ==
    IF session_id \notin DOMAIN sessions
    THEN NewRequest(session_id, message, "done", 404)
    ELSE IF ~validate_message(message)
    THEN NewRequest(session_id, message, "done", 400)
    ELSE NewRequest(session_id, message, "append", Null)

\* lines 285-321 of chat: the request as admitted or rejected
ReceivedRequest(store, session_id, message) ==
    IF session_id \notin store
    THEN NewRequest(session_id, message, "done", 404)
    ELSE IF ~validate_message(message)
    THEN NewRequest(session_id, message, "done", 400)
    ELSE NewRequest(session_id, message, "append", Null)

\* every session object shares one turn log, as a class attribute would be
UpdateSession_SharedLog(heap, session_id, s) ==
    [x \in DOMAIN heap |->
        IF x = session_id THEN s
        ELSE [heap[x] EXCEPT !.conversation_history = s.conversation_history]]

\* the attributes of the object of session `session_id` become those of s;
\* __init__ gives every object attributes of its own
UpdateSession(heap, session_id, s) == [heap EXCEPT ![session_id] = s]

\* POST /api/session
CreateSession(session_id) ==
    /\ session_id \notin DOMAIN sessions
    /\ sessions' = sessions @@ (session_id :> NewSession(session_id))
    /\ SESSION_STORE' = SESSION_STORE \cup {session_id}
    /\ audit_log' = Append(audit_log,
                           log_event(AuditEventType.SESSION_CREATED, Null, session_id,
                                     RemoteAddr, Null))
    /\ UNCHANGED <<call, session, customers, requests>>

\* DELETE /api/session/<session_id>, the session exists
DeleteSession(session_id) ==
    /\ session_id \in SESSION_STORE
    /\ SESSION_STORE' = SESSION_STORE \ {session_id}
    /\ audit_log' = Append(audit_log,
                           log_event(AuditEventType.SESSION_DELETED, Null, session_id,
                                     RemoteAddr, Null))
    /\ UNCHANGED <<call, session, customers, sessions, requests>>

\* /api/chat/<session_id>: the request arrives and is admitted or rejected
ChatRequest(session_id, message) ==
    /\ Len(requests) < MaxRequests
    /\ requests' = Append(requests,
                          ReceivedRequest(SESSION_STORE, session_id, StripTable[message]))
    /\ UNCHANGED <<call, session, customers, audit_log, SESSION_STORE, sessions>>

\* the request r is at `pc`
At(r, pc) == r \in 1..Len(requests) /\ requests[r].pc = pc

\* the session object of request r
SessionOf(r) == sessions[requests[r].session_id]

\* lines 33-34 of process_message, on the thread of request r
AppendUserTurn(r) ==
    /\ At(r, "append")
    /\ sessions' = [sessions EXCEPT
                      ![requests[r].session_id].conversation_history =
                           Append(@, [user |-> SanitizeTable[requests[r].message]])]
    /\ requests' = [requests EXCEPT ![r].user_message = SanitizeTable[requests[r].message],
                                    ![r].pc = "dispatch"]
    /\ UNCHANGED <<call, session, customers, audit_log, SESSION_STORE>>

\* line 36 of process_message, on the thread of request r
Dispatch(r) ==
    /\ At(r, "dispatch")
    /\ requests' = [requests EXCEPT
                      ![r].pc = IF /\ SessionOf(r).pending_intent # Null
                                   /\ is_verification_pending(SessionOf(r))
                                THEN "load" ELSE "classify"]
    /\ UNCHANGED <<call, session, customers, audit_log, SESSION_STORE, sessions>>

\* line 91 of _handle_verification_input: the count is read
LoadAttempts(r) ==
    /\ At(r, "load")
    /\ requests' = [requests EXCEPT ![r].attempts = SessionOf(r).verification_attempts,
                                    ![r].pc = "store"]
    /\ UNCHANGED <<call, session, customers, audit_log, SESSION_STORE, sessions>>

\* line 91 of _handle_verification_input: the count read plus one is written
StoreAttempts(r) ==
    /\ At(r, "store")
    /\ sessions' = [sessions EXCEPT
                      ![requests[r].session_id].verification_attempts =
                           requests[r].attempts + 1]
    /\ requests' = [requests EXCEPT ![r].pc = "check"]
    /\ UNCHANGED <<call, session, customers, audit_log, SESSION_STORE>>

\* the reasons verify_customer gives for rejecting a claim of the model
FailureReasons ==
    UNION {{VerifyTable[c][u][2] : u \in {x \in DOMAIN VerifyTable[c] : ~VerifyTable[c][x][1]}} :
             c \in Directories}

\* the responses process_message can return
ChatResponses ==
    {UnknownResponse, VerificationPrompt, LockoutResponse, ErrorResponse}
        \cup {MissingFieldsResponse(k) : k \in 1..3}
        \cup {FailureResponse(reason, k) : reason \in FailureReasons,
                                            k \in 1..max_verification_attempts}
        \cup DOMAIN GateTable
        \cup {<<SuccessPrefix>> \o response : response \in DOMAIN GateTable}

\* lines 328-343 of chat: the response is validated, then streamed (200) or
\* withheld (500)
StatusTable ==
    [response \in ChatResponses |->
        IF validate_response(ResponseText(response)) THEN 200 ELSE 500]

\* process_message returned `out` to the thread of request r
Completed(r, out) ==
    /\ sessions' = UpdateSession(sessions, requests[r].session_id, out.session)
    /\ audit_log' = audit_log \o out.audit
    /\ requests' = [requests EXCEPT ![r].response = out.response,
                                    ![r].status = StatusTable[out.response],
                                    ![r].pc = "done"]
    /\ UNCHANGED <<call, session, customers, SESSION_STORE>>

\* lines 93-178 of _handle_verification_input, on the thread of request r
CheckClaim(r) ==
    /\ At(r, "check")
    /\ Completed(r, record_response(
                        check_claim(customers, SessionOf(r), requests[r].user_message)))

\* lines 41-81 of process_message, on the thread of request r
ClassifyMessage(r) ==
    /\ At(r, "classify")
    /\ Completed(r, record_response(
                        handle_classified_message(customers, SessionOf(r),
                                                  requests[r].user_message)))

\* a holder of the session object resets its verification status
ResetSession(session_id) ==
    /\ session_id \in DOMAIN sessions
    /\ sessions' = UpdateSession(sessions, session_id,
                                 reset_verification(sessions[session_id]))
    /\ UNCHANGED <<call, session, customers, audit_log, SESSION_STORE, requests>>

NextService ==
    \/ \E session_id \in SessionIds : CreateSession(session_id)
    \/ \E session_id \in SessionIds : DeleteSession(session_id)
    \/ \E session_id \in SessionIds, message \in ServiceMessages :
            ChatRequest(session_id, message)
    \/ \E r \in 1..MaxRequests : AppendUserTurn(r)
    \/ \E r \in 1..MaxRequests : Dispatch(r)
    \/ \E r \in 1..MaxRequests : LoadAttempts(r)
    \/ \E r \in 1..MaxRequests : StoreAttempts(r)
    \/ \E r \in 1..MaxRequests : CheckClaim(r)
    \/ \E r \in 1..MaxRequests : ClassifyMessage(r)
    \/ \E session_id \in SessionIds : ResetSession(session_id)

SpecService == Init /\ [][NextService]_vars

(***************************************************************************)
(* app.py: the session store under chat, history and delete requests, each *)
(* on a thread of its own.  A history or delete request looks the session  *)
(* up twice (`in SESSION_STORE`, then SESSION_STORE[...] or del), and a     *)
(* thread switch can fall between the two.                                 *)
(***************************************************************************)
\* the number of requests the store receives
MaxStoreRequests == 3

\* /api/chat/<session_id> arrives
StoreChat(session_id, message) ==
    /\ Len(requests) < MaxStoreRequests
    /\ requests' = Append(requests,
                          ReceivedRequest(SESSION_STORE, session_id, StripTable[message]))
    /\ UNCHANGED <<call, session, customers, audit_log, SESSION_STORE, sessions>>

\* line 407 of delete_session: the test `session_id in SESSION_STORE`
DeleteArrives(session_id) ==
    /\ Len(requests) < MaxStoreRequests
    /\ requests' = Append(requests,
                          IF session_id \in SESSION_STORE
                          THEN NewRequest(session_id, Null, "del", Null)
                          ELSE NewRequest(session_id, Null, "delete_done", 404))
    /\ UNCHANGED <<call, session, customers, audit_log, SESSION_STORE, sessions>>

\* lines 408-417 of delete_session: del SESSION_STORE[session_id], which
\* raises KeyError (answered 500) when another request has deleted the key
DeleteDel(r) ==
    /\ At(r, "del")
    /\ IF requests[r].session_id \in SESSION_STORE
       THEN /\ SESSION_STORE' = SESSION_STORE \ {requests[r].session_id}
            /\ audit_log' = Append(audit_log,
                                   log_event(AuditEventType.SESSION_DELETED, Null,
                                             requests[r].session_id, RemoteAddr, Null))
            /\ requests' = [requests EXCEPT ![r].pc = "delete_done", ![r].status = 200]
       ELSE /\ requests' = [requests EXCEPT ![r].pc = "delete_done", ![r].status = 500]
            /\ UNCHANGED <<SESSION_STORE, audit_log>>
    /\ UNCHANGED <<call, session, customers, sessions>>

\* line 379 of get_history: the test `session_id not in SESSION_STORE`
HistoryArrives(session_id) ==
    /\ Len(requests) < MaxStoreRequests
    /\ requests' = Append(requests,
                          IF session_id \in SESSION_STORE
                          THEN NewRequest(session_id, Null, "read", Null)
                          ELSE NewRequest(session_id, Null, "history_done", 404))
    /\ UNCHANGED <<call, session, customers, audit_log, SESSION_STORE, sessions>>

\* lines 385-401 of get_history: SESSION_STORE[session_id] is read and the
\* history returned; a KeyError is answered 500
HistoryRead(r) ==
    /\ At(r, "read")
    /\ requests' = [requests EXCEPT
                      ![r].pc = "history_done",
                      ![r].response = IF requests[r].session_id \in SESSION_STORE
                                      THEN SessionOf(r).conversation_history ELSE Null,
                      ![r].status = IF requests[r].session_id \in SESSION_STORE
                                    THEN 200 ELSE 500]
    /\ UNCHANGED <<call, session, customers, audit_log, SESSION_STORE, sessions>>

NextStore ==
    \/ \E session_id \in SessionIds : CreateSession(session_id)
    \/ \E session_id \in SessionIds, message \in StoreMessages : StoreChat(session_id, message)
    \/ \E session_id \in SessionIds : DeleteArrives(session_id)
    \/ \E session_id \in SessionIds : HistoryArrives(session_id)
    \/ \E r \in 1..MaxStoreRequests : DeleteDel(r)
    \/ \E r \in 1..MaxStoreRequests : HistoryRead(r)
    \/ \E r \in 1..MaxStoreRequests : AppendUserTurn(r)
    \/ \E r \in 1..MaxStoreRequests : Dispatch(r)
    \/ \E r \in 1..MaxStoreRequests : LoadAttempts(r)
    \/ \E r \in 1..MaxStoreRequests : StoreAttempts(r)
    \/ \E r \in 1..MaxStoreRequests : CheckClaim(r)
    \/ \E r \in 1..MaxStoreRequests : ClassifyMessage(r)

SpecStore == Init /\ [][NextStore]_vars

(***************************************************************************)
(* The component functions called directly: the Customer Directory's       *)
(* verify_customer, the classifier, the Response Generator and the         *)
(* security gate, each applied to inputs of a bounded set, by a caller     *)
(* whose session goes through turns of its own between the calls.          *)
(***************************************************************************)
\* the turns of the caller's session between the calls
MaxCallerTurns == 2

\* the messages of the caller's session: a sensitive query and the claim of
\* somebody who is not in the directory
CallerMessages ==
    { "What is my account balance?",
      "John Doe, 1990/01/01, B123456789" }

\* the records a customer manager may hold: the shipped directory and one
\* that keeps the record under another customer's key
ManagerRecords == <<CUSTOMERS, "B123456789" :> CUSTOMERS["A234763849"]>>

\* the arguments of verify_customer: the manager called (by its records) and
\* names, dates of birth and id numbers that are stored, differ in letter
\* case, are malformed, end with a newline or belong to nobody
VerifyInputs ==
    { <<manager, name, dob, id_number>> :
          manager   \in DOMAIN ManagerRecords,
          name      \in {"Tony Stark", "tony STARK", "T", "John Doe"},
          dob       \in {"1996/09/10", "1996-09-10", "1996/09/10\n", "1990/01/01"},
          id_number \in {"A234763849", "a234763849", "234763849", "B123456789"} }

\* verify_customer on each of the arguments
VerifyResults ==
    [a \in VerifyInputs |-> verify_customer(ManagerRecords[a[1]], a[2], a[3], a[4])]

\* the customer manager that refuses once its session has failed an attempt
manager_verify_Throttled(s, a) ==
    IF s.verification_attempts >= 1
    THEN <<FALSE, "Too many attempts">>
    ELSE VerifyResults[a]

\* the customer manager that looks the record up under the upper-case id
\* number and then compares the stored id number with the one given
manager_verify_UpperLookup(s, a) ==
    LET found == VerifyResults[<<a[1], a[2], a[3], Upper(a[4])>>]
    IN  IF found[1] /\ a[4] # Upper(a[4])
        THEN <<FALSE, "ID number does not match">>
        ELSE VerifyResults[a]

\* self.customer_manager.verify_customer(name, dob, id_number) of session s,
\* for a = <<the manager, name, dob, id_number>>
manager_verify(s, a) == VerifyResults[a]

\* verify_customer is called with the arguments `a`
VerifyCall(a) ==
    /\ call' = [fn |-> "verify_customer", args |-> a, result |-> manager_verify(session, a)]
    /\ UNCHANGED <<session, customers, audit_log, service>>

\* the texts classify is called with: every keyword of INTENT_KEYWORDS on its
\* own, after "my " and glued to a prefix, before "?" and glued to a suffix,
\* and texts that are empty, in upper case, have no keyword, or have keywords
\* of several intents with equal scores
ClassifyPrefixes == {"", "my ", "un"}
ClassifySuffixes == {"", "?", "s"}
Keywords ==
    UNION { {INTENT_KEYWORDS[k][2][j] : j \in 1..Len(INTENT_KEYWORDS[k][2])} :
                k \in 1..Len(INTENT_KEYWORDS) }
ClassifyTexts ==
    { prefix \o keyword : prefix \in ClassifyPrefixes, keyword \in Keywords }
    \cup { keyword \o suffix : suffix \in ClassifySuffixes, keyword \in Keywords }
    \cup { "", "   ", "hello there", "BALANCE", "How Much do I OWE",
           "open a branch", "help service how much", "how much help service",
           "I went shopping and reopened nothing",
           "my_account balance9", "What is my account balance?",
           "which branch is my account from",
           "please could you tell me where I might borrow" }

\* classify on each of the texts
ClassifyResults == [text \in {t : t \in ClassifyTexts} |-> classify(text)]

\* IntentClassifier.classify(text) is called
ClassifyCall(text) ==
    /\ call' = [fn |-> "classify", args |-> text, result |-> ClassifyResults[text]]
    /\ UNCHANGED <<session, customers, audit_log, service>>

\* the records the handler's customer manager may hold: the shipped
\* directory and one with a second customer
HandlerRecords ==
    << CUSTOMERS,
       [id \in {"A234763849", "B123456789"} |->
           IF id = "A234763849" THEN CUSTOMERS[id]
           ELSE [name            |-> "Pepper Potts",
                 dob             |-> "1990/01/01",
                 id_number       |-> "B123456789",
                 bank_account    |-> "7203485367780302",
                 account_balance |-> "TWD 81,200",
                 loan_balance    |-> "TWD 0",
                 opening_branch  |-> "Kaohsiung Branch"]] >>

\* the arguments of handle_query: the handler called (by its records), every
\* intent, and for verified_customer_id None, the empty string, the two
\* identifiers and an identifier of no record
HandleQueryInputs ==
    { <<handler, intent, verified_customer_id>> :
          handler              \in DOMAIN HandlerRecords,
          intent               \in Intents,
          verified_customer_id \in {Null, "", "A234763849", "B123456789", "Z000000000"} }

\* handle_query on each of the arguments
HandleQueryResults ==
    [a \in HandleQueryInputs |-> handle_query(HandlerRecords[a[1]], a[2], a[3])]

\* ResponseHandler.handle_query(intent, verified_customer_id) is called
HandleQueryCall(a) ==
    /\ call' = [fn |-> "handle_query", args |-> a, result |-> HandleQueryResults[a]]
    /\ UNCHANGED <<session, customers, audit_log, service>>

\* the texts validate_response is called with: every forbidden keyword in
\* lower, upper and mixed case, alone, inside a sentence and glued to other
\* letters; keywords broken by a space or a hyphen; words that hold "pin";
\* and responses of the handler
KeywordSpellings ==
    { "password", "PASSWORD", "PassWord", "pwd", "PWD", "pWd", "pin", "PIN", "PiN",
      "secret", "SECRET", "SeCrEt", "api_key", "API_KEY", "Api_Key",
      "token", "TOKEN", "ToKeN" }
ValidateTexts ==
    { before \o spelling \o " is safe to share." :
          before \in {"", "Your ", "x"}, spelling \in KeywordSpellings }
    \cup { spelling \o after : after \in {"", "s"}, spelling \in KeywordSpellings }
    \cup { "", "pass word", "p-i-n", "api key", "apikey", "tok en", "secre", "wd",
           "I went shopping", "In my opinion", "Taipei First Main Branch",
           "Your current account balance is: TWD 2,500,394",
           "Unable to process your request." }
    \cup { ResponseText(HandleQueryResults[a]) : a \in HandleQueryInputs }

\* validate_response on each of the texts
ValidateResults == [text \in {t : t \in ValidateTexts} |-> validate_response_result(text)]

\* SecurityValidator.validate_response(text) is called
ValidateCall(text) ==
    /\ call' = [fn |-> "validate_response", args |-> text, result |-> ValidateResults[text]]
    /\ UNCHANGED <<session, customers, audit_log, service>>

\* the caller's session handles a message between two calls
CallerTurn(message) ==
    /\ Len(session.conversation_history) < MaxCallerTurns
    /\ ProcessMessage(message)

NextCalls ==
    \/ \E a \in VerifyInputs : VerifyCall(a)
    \/ \E text \in ClassifyTexts : ClassifyCall(text)
    \/ \E a \in HandleQueryInputs : HandleQueryCall(a)
    \/ \E text \in ValidateTexts : ValidateCall(text)
    \/ \E message \in CallerMessages : CallerTurn(message)

SpecCalls == Init /\ [][NextCalls]_vars

\* process_message is called with `message` by a session of at most
\* MaxIntentTurns turns
IntentTurn(message) ==
    /\ Len(session.conversation_history) < MaxIntentTurns
    /\ ProcessMessage(message)

\* the classifier called directly on the texts, and sessions whose messages it
\* classifies
NextIntents ==
    \/ \E text \in ClassifyTexts : ClassifyCall(text)
    \/ \E message \in IntentMessages : IntentTurn(message)

SpecIntents == Init /\ [][NextIntents]_vars

(***************************************************************************)
(* Vocabulary of the properties                                            *)
(***************************************************************************)
history == session.conversation_history
turns == Len(history)

\* the states of section 4.5
AwaitingVerification ==
    session.pending_intent # Null /\ session.verified_customer_id = Null
Idle == session.pending_intent = Null

\* this step is one process_message call; its turn is the last of history'
ProcessStep == Len(session'.conversation_history) = turns + 1
StepMessage == session'.conversation_history[turns + 1].user
StepResponse == session'.conversation_history[turns + 1].assistant

\* the values of the four sensitive fields of the records of the directory
FieldValues == {customers[id][f] : id \in DOMAIN customers, f \in SENSITIVE_QUERIES}

\* the response carries a value read from a customer record
Discloses(response) == \E k \in 1..Len(response) : response[k] \in FieldValues

\* the sentence of section 4.3 for a sensitive intent and the record field it names
FieldSentence ==
    [bank_account    |-> "Your bank account number is: ",
     account_balance |-> "Your current account balance is: ",
     loan_balance    |-> "Your current loan balance is: ",
     opening_branch  |-> "Your account was opened at: "]

\* the records of a directory that a complete claim names: same identifier,
\* same date of birth, same name up to letter case (tabulated over the inputs)
MatchingRecords(directory, text) ==
    {id \in DOMAIN directory :
        /\ MissingFields(ClaimTable[text]) = 0
        /\ ClaimTable[text].id_number = id
        /\ ClaimTable[text].dob = directory[id].dob
        /\ Lower(ClaimTable[text].name) = Lower(directory[id].name)}
MatchTable == [c \in Directories |-> [u \in UserMessages |-> MatchingRecords(c, u)]]

\* the text carries a complete claim; it names the stored record `id`; it
\* names no stored record
CompleteClaim(text) == MissingFields(ClaimTable[text]) = 0
ClaimOf(text, id) == id \in MatchTable[customers][text]
WrongClaim(text) == CompleteClaim(text) /\ MatchTable[customers][text] = {}

IsFailureReport(response, attempts_remaining) ==
    /\ Len(response) = 5
    /\ response[1] = "Verification failed: "
    /\ response[4] = ToString(attempts_remaining)

\* the index of the last turn answered with the verification prompt, or 0
LastPrompt ==
    LET prompts == {i \in 1..turns : history[i].assistant = VerificationPrompt}
    IN  IF prompts = {} THEN 0 ELSE CHOOSE i \in prompts : \A j \in prompts : j <= i

\* no claim verified after turn p
NoSuccessAfter(p) == \A j \in (p + 1)..turns : history[j].assistant[1] # SuccessPrefix

(***************************************************************************)
(* C1: a response carries a customer field value only if the session's     *)
(* verified customer identifier is non-null when the response is           *)
(* generated.                                                              *)
(***************************************************************************)
C1_DataOnlyWhenVerified ==
    [][(ProcessStep /\ Discloses(StepResponse)) => session'.verified_customer_id # Null]_vars

C1_Witness ==
    /\ turns > 0
    /\ Discloses(history[turns].assistant)
    /\ session.verified_customer_id # Null

(***************************************************************************)
(* C2: after the last verification prompt, as long as no claim verified,   *)
(* no response carries a field value, and once max+1 messages have         *)
(* followed the prompt the session is Idle, unverified, with the pending   *)
(* intent cleared.                                                         *)
(***************************************************************************)
C2_BackToIdleWithinBudget ==
    (LastPrompt > 0 /\ NoSuccessAfter(LastPrompt)) =>
        /\ \A j \in (LastPrompt + 1)..turns : ~Discloses(history[j].assistant)
        /\ turns - LastPrompt >= max_verification_attempts + 1 =>
                (Idle /\ session.verified_customer_id = Null)

C2_Witness ==
    /\ LastPrompt > 0
    /\ NoSuccessAfter(LastPrompt)
    /\ turns - LastPrompt = max_verification_attempts + 1
    /\ history[turns].assistant = LockoutResponse
    /\ session.verification_attempts = max_verification_attempts + 1
    /\ Idle

(***************************************************************************)
(* C3: whenever the pending intent is set, the attempt count is at most    *)
(* the maximum.                                                            *)
(***************************************************************************)
C3_PendingWithinBudget ==
    session.pending_intent # Null =>
        session.verification_attempts <= max_verification_attempts

(***************************************************************************)
(* C4: the attempt count lies in 0..max in every reachable state.          *)
(***************************************************************************)
C4_AttemptsInRange ==
    session.verification_attempts \in 0..max_verification_attempts

(***************************************************************************)
(* C5: on a session that has just been prompted with attempt count 0,      *)
(* three consecutive complete but wrong claims.  k is the number of wrong  *)
(* claims already answered since the prompt.                               *)
(***************************************************************************)
FreshWrongClaims(k) ==
    /\ turns > k
    /\ session.verification_attempts = k
    /\ session.verified_customer_id = Null
    /\ history[turns - k].assistant = VerificationPrompt
    /\ \A j \in (turns - k + 1)..turns : WrongClaim(history[j].user)

\* C5 as stated: each of the three wrong claims is answered with a failure
\* report and leaves the intent pending; the fourth message gets the lockout
C5_LockoutOnFourthMessage ==
    [][\A k \in 0..2 :
        (FreshWrongClaims(k) /\ session.pending_intent # Null
            /\ ProcessStep /\ WrongClaim(StepMessage)) =>
                /\ IsFailureReport(StepResponse, max_verification_attempts - (k + 1))
                /\ session'.pending_intent = session.pending_intent]_vars

\* C5 as amended: the first two wrong claims are answered with failure reports
\* (2, then 1 attempts remaining) and leave the intent pending; the third is
\* answered with the lockout message and clears the pending intent; a fourth
\* message is handled in Idle and is not charged as an attempt
C5_LockoutOnThirdMessage ==
    [][/\ \A k \in 0..1 :
            (FreshWrongClaims(k) /\ session.pending_intent # Null
                /\ ProcessStep /\ WrongClaim(StepMessage)) =>
                    /\ IsFailureReport(StepResponse, max_verification_attempts - (k + 1))
                    /\ session'.pending_intent = session.pending_intent
                    /\ session'.verification_attempts = k + 1
       /\ (FreshWrongClaims(2) /\ session.pending_intent # Null
                /\ ProcessStep /\ WrongClaim(StepMessage)) =>
                    /\ StepResponse = LockoutResponse
                    /\ session'.pending_intent = Null
                    /\ session'.verification_attempts = max_verification_attempts
       /\ (FreshWrongClaims(3) /\ ProcessStep) =>
                    /\ session.pending_intent = Null
                    /\ StepResponse # LockoutResponse
                    /\ session'.verification_attempts = max_verification_attempts]_vars

C5_Witness ==
    /\ FreshWrongClaims(3)
    /\ IsFailureReport(history[turns - 2].assistant, 2)
    /\ IsFailureReport(history[turns - 1].assistant, 1)
    /\ history[turns].assistant = LockoutResponse
    /\ Idle

(***************************************************************************)
(* C6: after a lockout, a sensitive query restarts the flow from scratch:  *)
(* the correct claim sent in reply to the new verification prompt is       *)
(* verified and answered with the requested data.                          *)
(***************************************************************************)
C6_RestartAfterLockout ==
    [][\A id \in DOMAIN customers :
        (/\ AwaitingVerification
         /\ turns > 1
         /\ history[turns].assistant = VerificationPrompt
         /\ \E j \in 1..(turns - 1) : history[j].assistant = LockoutResponse
         /\ ProcessStep
         /\ ClaimOf(StepMessage, id)) =>
            /\ session'.verified_customer_id = id
            /\ Discloses(StepResponse)]_vars

(***************************************************************************)
(* C7: once the verified customer identifier is set, no process_message    *)
(* call changes it; the only step that changes it is reset_verification,   *)
(* which sets it to null.                                                  *)
(***************************************************************************)
C7_VerifiedIsSticky ==
    [][session.verified_customer_id # Null =>
        /\ ProcessStep => session'.verified_customer_id = session.verified_customer_id
        /\ session'.verified_customer_id # session.verified_customer_id =>
                (session' = reset_verification(session)
                    /\ session'.verified_customer_id = Null)]_vars

\* a verified session that has since answered an unknown, a public and a
\* sensitive message
C7_Witness ==
    /\ session.verified_customer_id # Null
    /\ \E i \in 1..turns :
        /\ history[i].assistant[1] = SuccessPrefix
        /\ \E j \in (i + 1)..turns : history[j].assistant = UnknownResponse
        /\ \E j \in (i + 1)..turns : history[j].assistant = <<format_service_items>>
        /\ \E j \in (i + 1)..turns : Discloses(history[j].assistant)

(***************************************************************************)
(* C8: in AwaitingVerification with attempts remaining, a claim that       *)
(* verifies stores the directory's identifier of the customer, resets the  *)
(* attempt count, clears the pending intent and returns the success        *)
(* confirmation followed by the sentence for the pending intent with the   *)
(* stored value of that customer's field.                                  *)
(***************************************************************************)
C8_VerificationSuccess ==
    [][\A id \in DOMAIN customers :
        (/\ AwaitingVerification
         /\ session.verification_attempts < max_verification_attempts
         /\ ProcessStep
         /\ ClaimOf(StepMessage, id)) =>
            /\ session'.verified_customer_id = id
            /\ session'.verification_attempts = 0
            /\ session'.pending_intent = Null
            /\ StepResponse = << SuccessPrefix,
                                 FieldSentence[session.pending_intent],
                                 customers[id][session.pending_intent] >>]_vars

\* verified at the second attempt, for the opening branch
C8_Witness ==
    /\ turns >= 3
    /\ history[turns - 2].assistant = VerificationPrompt
    /\ IsFailureReport(history[turns - 1].assistant, 2)
    /\ history[turns].assistant =
            <<SuccessPrefix, "Your account was opened at: ", "Taipei First Main Branch">>
    /\ session.verified_customer_id = "A234763849"
    /\ session.verification_attempts = 0
    /\ Idle

(***************************************************************************)
(* C9: in a verified session every sensitive-intent message is answered at *)
(* once with the verified customer's data: no verification prompt, the     *)
(* pending intent stays null, the attempt count and the verified           *)
(* identifier do not change.                                               *)
(***************************************************************************)
C9_NoReverification ==
    [][(/\ session.verified_customer_id # Null
        /\ ProcessStep
        /\ is_sensitive_query(ClassifyTable[StepMessage].intent)) =>
            LET intent == ClassifyTable[StepMessage].intent
            IN  /\ StepResponse = << FieldSentence[intent],
                                     customers[session.verified_customer_id][intent] >>
                /\ session.pending_intent = Null
                /\ session'.pending_intent = Null
                /\ session'.verification_attempts = session.verification_attempts
                /\ session'.verified_customer_id = session.verified_customer_id]_vars

\* verified for the balance, then asked for the opening branch and the balance
C9_Witness ==
    /\ turns >= 4
    /\ history[turns - 2].assistant[1] = SuccessPrefix
    /\ history[turns - 1].assistant =
            <<"Your account was opened at: ", "Taipei First Main Branch">>
    /\ history[turns].assistant = <<"Your current account balance is: ", "TWD 2,500,394">>
    /\ session.verified_customer_id = "A234763849"
    /\ Idle

(***************************************************************************)
(* C10: every text the Response Generator produced for a turn, on the      *)
(* direct path and on the verification-success path, passed the security   *)
(* gate before it was returned and logged: a generated text with a         *)
(* forbidden keyword is replaced by the generic error message.             *)
(***************************************************************************)
C10_GateOnEveryPath ==
    \A i \in 1..turns :
        LET response == history[i].assistant
        IN  /\ response \in DOMAIN GateTable => GateTable[response]
            /\ (response[1] = SuccessPrefix /\ Tail(response) \in DOMAIN GateTable) =>
                    GateTable[Tail(response)]

\* the response is one of the four replies of _handle_verification_input:
\* the lockout message, the missing-field prompt, a failure report or the
\* success confirmation
IsVerificationReply(response) ==
    \/ response = LockoutResponse
    \/ \E k \in 1..3 : response = MissingFieldsResponse(k)
    \/ Len(response) = 5 /\ response[1] = "Verification failed: "
    \/ response[1] = SuccessPrefix

(***************************************************************************)
(* C11: in AwaitingVerification every message, whatever it would classify  *)
(* as, is handled as a verification attempt: the attempt count goes up by  *)
(* exactly one (and is then reset to 0 only if the claim verified), the    *)
(* reply is a reply of the verification handler and not the answer of the  *)
(* classified path, and the pending intent is kept or cleared, never       *)
(* replaced by another intent.                                             *)
(***************************************************************************)
C11_PendingMessagesAreAttempts ==
    [][(AwaitingVerification /\ ProcessStep) =>
        /\ \/ session'.verification_attempts = session.verification_attempts + 1
           \/ /\ session'.verified_customer_id # Null
              /\ session'.verification_attempts = 0
        /\ IsVerificationReply(StepResponse)
        /\ session'.pending_intent \in {session.pending_intent, Null}]_vars

\* a public query and then another sensitive query sent while the balance
\* query was pending: both charged as attempts, the balance still pending
C11_Witness ==
    /\ turns >= 3
    /\ history[turns - 2].assistant = VerificationPrompt
    /\ history[turns - 1].user = "What services do you offer?"
    /\ history[turns - 1].assistant = MissingFieldsResponse(3)
    /\ history[turns].user = "Where was my account opened?"
    /\ history[turns].assistant = MissingFieldsResponse(3)
    /\ session.pending_intent = Intent.ACCOUNT_BALANCE
    /\ session.verification_attempts = 2

\* the number of the three claim fields that the parse of `text` left None
\* or empty
EmptyFields(text) ==
    Cardinality({f \in {"name", "dob", "id_number"} : ClaimTable[text][f] \in {Null, ""}})

(***************************************************************************)
(* C12: in AwaitingVerification, with the attempt count after the          *)
(* increment not above the maximum, a message with fewer than three        *)
(* parsable claim fields is charged exactly one attempt, reaches neither   *)
(* the Customer Directory nor its audit events, leaves the pending intent  *)
(* and the (null) verified identifier unchanged, and is answered with the  *)
(* prompt that states the number of fields still missing.                  *)
(***************************************************************************)
C12_MissingFieldsChargedOnce ==
    [][(/\ AwaitingVerification
        /\ session.verification_attempts + 1 <= max_verification_attempts
        /\ ProcessStep
        /\ EmptyFields(StepMessage) > 0) =>
            /\ session'.verification_attempts = session.verification_attempts + 1
            /\ session'.pending_intent = session.pending_intent
            /\ session'.verified_customer_id = Null
            /\ audit_log' = audit_log
            /\ StepResponse = MissingFieldsResponse(EmptyFields(StepMessage))]_vars

\* three partial claims in a row: three, two and one field missing
C12_Witness ==
    /\ turns >= 4
    /\ history[turns - 3].assistant = VerificationPrompt
    /\ history[turns - 2].user = "What is my account balance?"
    /\ history[turns - 2].assistant[2] = "3"
    /\ history[turns - 1].user = "Name: Tony Stark"
    /\ history[turns - 1].assistant[2] = "2"
    /\ history[turns].user = "Tony Stark, 1996/09/10,"
    /\ history[turns].assistant[2] = "1"
    /\ AwaitingVerification
    /\ session.verification_attempts = 3
    /\ audit_log = <<>>

(***************************************************************************)
(* C13: in AwaitingVerification, a complete claim that fails verification  *)
(* while the attempt count after it is below the maximum is answered with  *)
(* the failure reason and the number max - count of attempts remaining;    *)
(* the session stays AwaitingVerification with the same pending intent and *)
(* no verified identifier.                                                 *)
(***************************************************************************)
C13_FailureReportWithRemaining ==
    [][(/\ AwaitingVerification
        /\ session.verification_attempts + 1 < max_verification_attempts
        /\ ProcessStep
        /\ WrongClaim(StepMessage)) =>
            /\ session'.verification_attempts = session.verification_attempts + 1
            /\ StepResponse =
                 << "Verification failed: ",
                    VerifyTable[customers][StepMessage][2],
                    "\nAttempts remaining: ",
                    ToString(max_verification_attempts - session'.verification_attempts),
                    "\nPlease try again with correct information." >>
            /\ session'.pending_intent = session.pending_intent
            /\ session'.verified_customer_id = Null]_vars

\* the wrong record claimed on a fresh AwaitingVerification session
C13_Witness ==
    /\ turns >= 2
    /\ history[turns - 1].assistant = VerificationPrompt
    /\ history[turns].user = "John Doe, 1990/01/01, B123456789"
    /\ ResponseText(history[turns].assistant) =
            "Verification failed: Customer ID not found\nAttempts remaining: 2\n"
                \o "Please try again with correct information."
    /\ session.verification_attempts = 1
    /\ AwaitingVerification

(***************************************************************************)
(* C14: in AwaitingVerification, a complete claim that fails verification  *)
(* when it is the last attempt of the budget (the count reaches the        *)
(* maximum) clears the pending intent in that same call and is answered    *)
(* with the lockout message, without the failure reason; the session is    *)
(* left Idle and unverified.                                               *)
(***************************************************************************)
C14_LastAttemptLocksOut ==
    [][(/\ AwaitingVerification
        /\ session.verification_attempts + 1 = max_verification_attempts
        /\ ProcessStep
        /\ WrongClaim(StepMessage)) =>
            /\ StepResponse = LockoutResponse
            /\ ~Contains(ResponseText(StepResponse), VerifyTable[customers][StepMessage][2])
            /\ session'.pending_intent = Null
            /\ session'.verified_customer_id = Null
            /\ session'.verification_attempts = max_verification_attempts]_vars

\* two incomplete claims, then a wrong claim as the third attempt
C14_Witness ==
    /\ turns >= 4
    /\ history[turns - 3].assistant = VerificationPrompt
    /\ history[turns - 2].assistant = MissingFieldsResponse(3)
    /\ history[turns - 1].assistant = MissingFieldsResponse(3)
    /\ WrongClaim(history[turns].user)
    /\ history[turns].assistant = LockoutResponse
    /\ Idle
    /\ session.verified_customer_id = Null
    /\ session.verification_attempts = max_verification_attempts

\* the correction messages of verify_customer for a malformed name, date of
\* birth and id number
FormatErrorReasons ==
    { "Invalid name format",
      "Invalid date of birth format (use YYYY/MM/DD)",
      "Invalid ID number format" }

\* the text carries a complete claim that verify_customer rejects for its format
FormatError(text) ==
    /\ CompleteClaim(text)
    /\ ~VerifyTable[customers][text][1]
    /\ VerifyTable[customers][text][2] \in FormatErrorReasons

(***************************************************************************)
(* C15: a claim rejected for an input-format error is recovered locally at *)
(* every attempt count: it is answered with the correction message for     *)
(* that format error, never with the lockout message, and the intent stays *)
(* pending.                                                                *)
(***************************************************************************)
C15_FormatErrorNeverLocksOut ==
    [][(AwaitingVerification /\ ProcessStep /\ FormatError(StepMessage)) =>
            /\ StepResponse # LockoutResponse
            /\ Len(StepResponse) = 5
            /\ StepResponse[2] = VerifyTable[customers][StepMessage][2]
            /\ session'.pending_intent = session.pending_intent]_vars

\* the step is a process_message call on `message` that appended one turn
\* holding the sanitized message and the response the call returned
CallRecorded(message) ==
    /\ ProcessStep
    /\ StepMessage = SanitizeTable[message]
    /\ SubSeq(session'.conversation_history, 1, turns) = history
    /\ LET out == process_message(customers, session, message)
       IN  /\ session' = out.session
           /\ StepResponse = out.response

(***************************************************************************)
(* C16: calls executed one at a time leave one turn each, in call order:   *)
(* every step either is a process_message call that appends exactly one    *)
(* turn, holding the user text of the call and the response the call       *)
(* returned, and leaves the earlier turns as they were, or is a            *)
(* reset_verification call that leaves the turn log unchanged; this holds  *)
(* on every return path.                                                   *)
(***************************************************************************)
C16_OneTurnPerCall ==
    [][\/ \E message \in AllMessages : CallRecorded(message)
       \/ /\ session' = reset_verification(session)
          /\ session'.conversation_history = history]_vars

\* a log of six calls that returned through the verification prompt, the
\* missing-field prompt, the failure report, the lockout and, after a reset,
\* the success path
C16_Witness ==
    /\ turns = 6
    /\ history[1].assistant = VerificationPrompt
    /\ history[2].assistant = MissingFieldsResponse(3)
    /\ IsFailureReport(history[3].assistant, 1)
    /\ history[4].assistant = LockoutResponse
    /\ history[5].assistant = VerificationPrompt
    /\ history[6].assistant[1] = SuccessPrefix
    /\ \A j \in 1..6 : DOMAIN history[j] = {"user", "assistant"}

\* the audit events written by this step
StepEvents == SubSeq(audit_log', Len(audit_log) + 1, Len(audit_log'))

\* one of the events written by this step is of type `event_type` and names
\* the session
StepLogs(event_type) ==
    \E k \in 1..Len(StepEvents) :
        /\ StepEvents[k].event_type = event_type
        /\ StepEvents[k].session_id = redact_session(session.session_id)

(***************************************************************************)
(* C19: every turn whose response discloses a field value of a customer,   *)
(* on the direct path of a verified session or on the verification-success *)
(* path, writes a sensitive-data-access audit event for the session.       *)
(***************************************************************************)
C19_DisclosureIsAudited ==
    [][(ProcessStep /\ Discloses(StepResponse)) =>
            StepLogs(AuditEventType.SENSITIVE_DATA_ACCESS)]_vars

(***************************************************************************)
(* C20: every message handled in AwaitingVerification writes at least one  *)
(* audit event recording the verification attempt or its outcome,          *)
(* including the turns that end with the missing-field prompt and the      *)
(* turns rejected because the attempt count exceeds the maximum.           *)
(***************************************************************************)
C20_AttemptIsAudited ==
    [][(AwaitingVerification /\ ProcessStep) =>
            \/ StepLogs(AuditEventType.VERIFICATION_ATTEMPT)
            \/ StepLogs(AuditEventType.VERIFICATION_SUCCESS)
            \/ StepLogs(AuditEventType.VERIFICATION_FAILURE)]_vars

\* the turn log of the session of request r after the step
LogAfter(r) == sessions'[requests[r].session_id].conversation_history

\* in this step process_message returns to the thread of request r
Completes(r) == requests[r].pc \in {"check", "classify"} /\ requests'[r].pc = "done"

\* in this step the thread of request r writes the attempt count it computed
Counts(r) == requests[r].pc = "store" /\ requests'[r].pc = "check"

(***************************************************************************)
(* C17: chat requests in flight on one session are serialized: when        *)
(* process_message returns to a request, the turn log of the session holds *)
(* a turn with the user text of that request and, as its assistant text,   *)
(* the response returned to it; and a message handled in                   *)
(* AwaitingVerification raises the attempt count of the session by exactly *)
(* one.                                                                    *)
(***************************************************************************)
C17_RequestsSerialized ==
    [][\A r \in 1..Len(requests) :
          /\ Completes(r) =>
                \E j \in 1..Len(LogAfter(r)) :
                    LogAfter(r)[j] = [user      |-> requests[r].user_message,
                                      assistant |-> requests'[r].response]
          /\ Counts(r) =>
                sessions'[requests[r].session_id].verification_attempts =
                    SessionOf(r).verification_attempts + 1]_vars

\* the step leaves every session object other than `session_id` as it was
OthersUnchanged(session_id) ==
    \A other \in DOMAIN sessions \ {session_id} :
        /\ sessions'[other].verified_customer_id = sessions[other].verified_customer_id
        /\ sessions'[other].pending_intent = sessions[other].pending_intent
        /\ sessions'[other].verification_attempts = sessions[other].verification_attempts
        /\ sessions'[other].conversation_history = sessions[other].conversation_history

(***************************************************************************)
(* C18: sessions are independent: a step of a chat request of one session  *)
(* leaves the verified identifier, pending intent, attempt count and turn  *)
(* log of every other session unchanged; no step, a reset_verification     *)
(* call included, changes more than one session; and no step changes the   *)
(* customer reference data.                                                *)
(***************************************************************************)
C18_SessionsIndependent ==
    [][/\ customers' = customers
       /\ \A r \in 1..Len(requests) :
             requests'[r].pc # requests[r].pc => OthersUnchanged(requests[r].session_id)
       /\ \A session_id \in DOMAIN sessions :
             sessions'[session_id] # sessions[session_id] => OthersUnchanged(session_id)]_vars

\* two sessions that each served one request: one awaits verification of a
\* balance query, the other was sent the claim without a query and is idle
C18_Witness ==
    \E a, b \in SESSION_STORE :
        /\ a # b
        /\ sessions[a].pending_intent = Intent.ACCOUNT_BALANCE
        /\ sessions[a].conversation_history =
               <<[user |-> "What is my account balance?", assistant |-> VerificationPrompt]>>
        /\ sessions[b].pending_intent = Null
        /\ Len(sessions[b].conversation_history) = 1
        /\ sessions[b].conversation_history[1].user = "Tony Stark, 1996/09/10, A234763849"
        /\ "assistant" \in DOMAIN sessions[b].conversation_history[1]
        /\ \A r \in 1..Len(requests) : requests[r].pc = "done"

(***************************************************************************)
(* C21: in Idle with no verified identifier, a message classified as a     *)
(* sensitive intent makes that intent the pending intent, is answered with *)
(* the verification prompt and with no customer data, leaves the attempt   *)
(* count unchanged and puts the session in AwaitingVerification.           *)
(***************************************************************************)
C21_SensitiveQueryStartsVerification ==
    [][(/\ Idle /\ session.verified_customer_id = Null
        /\ ProcessStep
        /\ is_sensitive_query(ClassifyTable[StepMessage].intent)) =>
            /\ session'.pending_intent = ClassifyTable[StepMessage].intent
            /\ StepResponse = VerificationPrompt
            /\ ~Discloses(StepResponse)
            /\ session'.verification_attempts = session.verification_attempts
            /\ session'.verified_customer_id = Null]_vars

\* a public query answered in Idle and then the branch query of the
\* unverified session: the prompt, the branch intent pending, no attempt
\* charged
C21_Witness ==
    /\ turns = 2
    /\ history[1].user = "What services do you offer?"
    /\ history[2].user = "Where was my account opened?"
    /\ history[2].assistant = VerificationPrompt
    /\ session.pending_intent = Intent.OPENING_BRANCH
    /\ session.verification_attempts = 0
    /\ AwaitingVerification

(***************************************************************************)
(* C22: in Idle, a message classified as a public intent or as Unknown is  *)
(* answered at once, with the static block of the intent or the fallback   *)
(* text, and leaves the pending intent, the attempt count and the verified *)
(* identifier unchanged: the session changes by the appended turn only,    *)
(* and no audit event is written.                                          *)
(***************************************************************************)
C22_PublicQueryAnsweredInIdle ==
    [][(/\ Idle /\ ProcessStep
        /\ ~is_sensitive_query(ClassifyTable[StepMessage].intent)) =>
            /\ StepResponse = IF ClassifyTable[StepMessage].intent = Intent.UNKNOWN
                              THEN UnknownResponse
                              ELSE handle_public_query(ClassifyTable[StepMessage].intent)
            /\ session' = [session EXCEPT !.conversation_history =
                               Append(@, [user |-> StepMessage, assistant |-> StepResponse])]
            /\ audit_log' = audit_log]_vars

\* a verified session that was then sent a public query and a text with no
\* keyword: both answered, the customer still verified
C22_Witness ==
    /\ turns = 4
    /\ history[2].assistant[1] = SuccessPrefix
    /\ history[3].user = "What services do you offer?"
    /\ history[3].assistant = handle_public_query(Intent.SERVICE_ITEMS)
    /\ history[4].user = "hello"
    /\ history[4].assistant = UnknownResponse
    /\ session.verified_customer_id = "A234763849"
    /\ session.pending_intent = Null

\* an earlier turn of the session ended with the lockout message
LockedOutBefore == \E j \in 1..turns : history[j].assistant = LockoutResponse

(***************************************************************************)
(* C23: no error path ends the session: every process_message call,        *)
(* whatever failures, missing-field prompts and lockouts came before,      *)
(* returns a non-empty response text and leaves the session in Idle or in  *)
(* AwaitingVerification; and a public-intent message sent in Idle after a  *)
(* lockout is answered with the static block of its intent.                *)
(***************************************************************************)
C23_ErrorsAreTurnScoped ==
    [][/\ (Idle \/ AwaitingVerification)'
       /\ ProcessStep =>
            /\ Len(ResponseText(StepResponse)) > 0
            /\ (/\ Idle /\ LockedOutBefore
                /\ ClassifyTable[StepMessage].intent \notin
                       {Intent.UNKNOWN} \cup {i \in Intents : is_sensitive_query(i)}) =>
                    StepResponse = handle_public_query(ClassifyTable[StepMessage].intent)]_vars

\* a flow that ended in the lockout, after a missing-field prompt and two
\* rejected claims, followed by a public query that is answered
C23_Witness ==
    /\ turns = 6
    /\ history[2].assistant = MissingFieldsResponse(3)
    /\ IsFailureReport(history[3].assistant, 1)
    /\ history[4].assistant = LockoutResponse
    /\ history[5].user = "What services do you offer?"
    /\ history[5].assistant = handle_public_query(Intent.SERVICE_ITEMS)
    /\ history[6].assistant = VerificationPrompt
    /\ AwaitingVerification

(***************************************************************************)
(* C24: a reset_verification call sets the verified identifier to null,    *)
(* the attempt count to 0 and the pending intent to null and leaves the    *)
(* turn log unchanged; in the state it produces, a sensitive-intent        *)
(* message is answered with the verification prompt, and the first claim   *)
(* rejected after that prompt is reported with the full budget less one    *)
(* attempt.                                                                *)
(***************************************************************************)
C24_ResetRestoresBudget ==
    [][/\ ~ProcessStep =>
            /\ session'.verified_customer_id = Null
            /\ session'.verification_attempts = 0
            /\ session'.pending_intent = Null
            /\ session'.conversation_history = history
       /\ (/\ ProcessStep /\ session.verification_attempts = 0
           /\ session.verified_customer_id = Null) =>
            /\ (Idle /\ is_sensitive_query(ClassifyTable[StepMessage].intent)) =>
                    /\ StepResponse = VerificationPrompt
                    /\ session'.verification_attempts = 0
            /\ (AwaitingVerification /\ WrongClaim(StepMessage)) =>
                    IsFailureReport(StepResponse, max_verification_attempts - 1)]_vars

\* a session locked out at count 3 and then reset: the balance query gets the
\* prompt again and the next wrong claim is the first of three
C24_Witness ==
    /\ turns = 6
    /\ history[4].assistant = LockoutResponse
    /\ history[5].assistant = VerificationPrompt
    /\ IsFailureReport(history[6].assistant, 2)
    /\ session.verification_attempts = 1
    /\ AwaitingVerification

\* the text is a date written YYYY/MM/DD and nothing else
StrictDob(dob) ==
    /\ Len(dob) = 10
    /\ \A i \in {1, 2, 3, 4, 6, 7, 9, 10} : InChars(CharAt(dob, i), DigitChars)
    /\ CharAt(dob, 5) = "/" /\ CharAt(dob, 8) = "/"

\* the text is one letter followed by nine digits and nothing else
StrictIdNumber(id_number) ==
    /\ Len(id_number) = 10
    /\ InChars(CharAt(id_number, 1), UpperChars \o LowerChars)
    /\ \A i \in 2..10 : InChars(CharAt(id_number, i), DigitChars)

\* the result of the first failing check of the seven, in their order
FirstFailingCheck(directory, name, dob, id_number) ==
    IF ~validate_name(name) THEN <<FALSE, "Invalid name format">>
    ELSE IF ~StrictDob(dob) THEN <<FALSE, "Invalid date of birth format (use YYYY/MM/DD)">>
    ELSE IF ~StrictIdNumber(id_number) THEN <<FALSE, "Invalid ID number format">>
    ELSE IF id_number \notin DOMAIN directory THEN <<FALSE, "Customer ID not found">>
    ELSE IF Lower(directory[id_number].name) # Lower(name)
        THEN <<FALSE, "Name does not match">>
    ELSE IF directory[id_number].dob # dob THEN <<FALSE, "Date of birth does not match">>
    ELSE IF directory[id_number].id_number # id_number
        THEN <<FALSE, "ID number does not match">>
    ELSE <<TRUE, id_number>>

(***************************************************************************)
(* C25: verify_customer returns the result of the first failing check in   *)
(* the order name format, date-of-birth format, id-number format,          *)
(* identifier in the directory, name equal up to letter case, date of      *)
(* birth equal, id number equal, each with its own reason, and succeeds    *)
(* with the customer identifier only when all seven pass.                  *)
(***************************************************************************)
C25_VerifyCheckOrder ==
    call.fn = "verify_customer" =>
        call.result = FirstFailingCheck(ManagerRecords[call.args[1]], call.args[2],
                                        call.args[3], call.args[4])

WordCharAt(text, i) == i >= 1 /\ i <= Len(text) /\ IsWordChar(CharAt(text, i))

\* phrase occurs in text as whole words: an occurrence with no word character
\* right before it or right after it
OccursAsWord(text, phrase) ==
    \E i \in 1..(Len(text) - Len(phrase) + 1) :
        /\ SubSeq(text, i, i + Len(phrase) - 1) = phrase
        /\ ~WordCharAt(text, i - 1)
        /\ ~WordCharAt(text, i + Len(phrase))

\* the number of words of a keyword phrase (its words are separated by one space)
PhraseWords(phrase) == 1 + Cardinality({i \in 1..Len(phrase) : CharAt(phrase, i) = " "})

\* the word counts of the keyword phrases of the k-th intent that occur in
\* text as whole words, letter case aside: one entry per phrase
MatchedPhrases(text, k) ==
    LET phrases == INTENT_KEYWORDS[k][2]
    IN  {<<j, PhraseWords(phrases[j])>> : j \in {i \in 1..Len(phrases) : OccursAsWord(text, phrases[i])}}

RECURSIVE SumOfWords(_)
SumOfWords(matched) ==
    IF matched = {} THEN 0
    ELSE LET m == CHOOSE x \in matched : TRUE
         IN  m[2] + SumOfWords(matched \ {m})

\* the largest word count of the matched phrases, 0 when there is none
LongestOfWords(matched) ==
    IF matched = {} THEN 0
    ELSE CHOOSE n \in {m[2] : m \in matched} : \A m \in matched : m[2] <= n

\* the matched phrases of every intent for the text of a classify call
MatchedByIntent(text) ==
    [k \in 1..Len(INTENT_KEYWORDS) |-> MatchedPhrases(Lower(text), k)]

\* `result` is what the scores of the matched phrases call for
ScoredChoice(matched, result) ==
    IF \A k \in DOMAIN matched : SumOfWords(matched[k]) = 0
    THEN result.intent = Intent.UNKNOWN /\ result.confidence = <<0, 1>>
    ELSE \E k \in DOMAIN matched :
            /\ result.intent = INTENT_KEYWORDS[k][1]
            /\ result.confidence[1] = SumOfWords(matched[k])
            /\ \A j \in DOMAIN matched :
                    /\ SumOfWords(matched[j]) <= SumOfWords(matched[k])
                    /\ SumOfWords(matched[j]) = SumOfWords(matched[k]) =>
                            LongestOfWords(matched[j]) <= LongestOfWords(matched[k])

\* C27: classify scores each intent as the sum of the word counts of its
\* keyword phrases that occur in the text as whole words; it returns Unknown
\* with confidence 0.0 exactly when every intent scores 0, and otherwise an
\* intent of the highest score, and among the intents tied on the score one
\* whose longest matching phrase has the most words.
C27_ClassifyByScore ==
    call.fn = "classify" => ScoredChoice(MatchedByIntent(call.args), call.result)

\* classify has been called with a text in which the service intent (two
\* phrases of one word) and the balance intent (one phrase of two words) both
\* score 2, and it returned the balance intent
C27_Witness ==
    /\ call.fn = "classify"
    /\ call.args = "help service how much"
    /\ call.result.intent = Intent.ACCOUNT_BALANCE
    /\ call.result.confidence = <<2, 4>>

\* the intents (by position in INTENT_KEYWORDS) of which some keyword occurs
\* in text as a whole word, letter case aside
IntentsNamed(text) ==
    {k \in 1..Len(INTENT_KEYWORDS) :
        \E j \in 1..Len(INTENT_KEYWORDS[k][2]) : OccursAsWord(Lower(text), INTENT_KEYWORDS[k][2][j])}

\* `result` is the only intent named with a confidence above 0, or Unknown
\* with confidence 0.0 when no intent is named
OnlyIntentNamed(named, result) ==
    /\ Cardinality(named) = 1 =>
            /\ \A k \in named : result.intent = INTENT_KEYWORDS[k][1]
            /\ result.confidence[1] > 0 /\ result.confidence[2] > 0
    /\ named = {} =>
            /\ result.intent = Intent.UNKNOWN
            /\ result.confidence = <<0, 1>>

\* C28: for a text that has, as a whole word, a keyword of exactly one
\* intent and no keyword of another, classify returns that intent with a
\* confidence greater than 0; for a text with no keyword of any intent it
\* returns Unknown with confidence 0.0.
C28_SingleIntentKeyword ==
    call.fn = "classify" => OnlyIntentNamed(IntentsNamed(call.args), call.result)

\* classify has been called with a text of nine words whose only keyword is
\* "borrow", and it returned the loan process intent
C28_Witness ==
    /\ call.fn = "classify"
    /\ call.args = "please could you tell me where I might borrow"
    /\ IntentsNamed(call.args) = {3}
    /\ call.result.intent = Intent.LOAN_PROCESS
    /\ call.result.confidence = <<1, 9>>

\* the prompt of section 4.3 for a sensitive intent without an identity
IdentityPrompt ==
    "For security reasons, I need to verify your identity first. "
        \o "Please provide your name, date of birth (YYYY/MM/DD), and ID number."

\* the text shows a value of one of the four sensitive fields of a record of
\* the directory, other than the given field of the given customer
ShowsOtherField(directory, text, customer_id, field) ==
    \E id \in DOMAIN directory : \E f \in SENSITIVE_QUERIES :
        /\ <<id, f>> # <<customer_id, field>>
        /\ Contains(text, directory[id][f])

\* `response` is what section 4.3 asks of a sensitive intent: the prompt and
\* no data without an identity, and with the identity of a customer of the
\* directory the sentence of the intent with the value of its field in that
\* customer's record and no other field
SensitiveResponse(directory, intent, verified_customer_id, response) ==
    /\ verified_customer_id \in {Null, ""} =>
            /\ response = <<IdentityPrompt>>
            /\ ~ShowsOtherField(directory, ResponseText(response), Null, intent)
    /\ verified_customer_id \in DOMAIN directory =>
            /\ response = <<FieldSentence[intent], directory[verified_customer_id][intent]>>
            /\ ~ShowsOtherField(directory, ResponseText(response), verified_customer_id, intent)
    /\ verified_customer_id \notin DOMAIN directory =>
            ~ShowsOtherField(directory, ResponseText(response), Null, intent)

\* C29: for a sensitive intent with no verified identity the Response
\* Generator returns the fixed verification prompt and never the requested
\* data; with a verified identity it reads exactly one field of that
\* customer's record, the one mapped to the intent, and returns one templated
\* sentence with that value.
C29_SensitiveResponse ==
    (call.fn = "handle_query" /\ call.args[2] \in SENSITIVE_QUERIES) =>
        SensitiveResponse(HandlerRecords[call.args[1]], call.args[2], call.args[3], call.result)

\* handle_query has been called for the loan balance with the identity of the
\* second customer of a directory of two, and returned that customer's loan
\* balance
C29_Witness ==
    /\ call.fn = "handle_query"
    /\ call.args = <<2, Intent.LOAN_BALANCE, "B123456789">>
    /\ ResponseText(call.result) = "Your current loan balance is: TWD 0"

\* the text, written in upper case, holds one of the six forbidden keywords of
\* section 4.4
HoldsForbiddenKeyword(upper_text) ==
    \E word \in {"PASSWORD", "PWD", "PIN", "SECRET", "API_KEY", "TOKEN"} :
        Contains(upper_text, word)

\* `result` is the verdict on a text that holds a forbidden keyword or not,
\* and "password" or not, letter case aside
GateVerdict(forbidden, password, result) ==
    /\ forbidden => result = <<FALSE, "Response contains forbidden sensitive information">>
    /\ ~forbidden => result = <<TRUE, Null>>
    /\ password => ~result[1]

\* C30: validate fails, with the fixed reason, exactly for the texts that
\* contain one of the forbidden keywords (password, pwd, pin, secret, api_key,
\* token) as a case-insensitive substring, and succeeds for every other text;
\* a text containing "password" in any letter case is rejected.
C30_ValidateRejectsKeywords ==
    call.fn = "validate_response" =>
        GateVerdict(HoldsForbiddenKeyword(Upper(call.args)),
                    Contains(Upper(call.args), "PASSWORD"), call.result)

\* validate_response has been called with a sentence that spells "password"
\* in mixed case, and rejected it
C30_Witness ==
    /\ call.fn = "validate_response"
    /\ call.args = "Your PassWord is safe to share."
    /\ call.result = <<FALSE, "Response contains forbidden sensitive information">>

(***************************************************************************)
(* C31: the two forms of a claim                                           *)
(***************************************************************************)
\* the values the three labels give in each message of FormMessages, None
\* for a label that is not found
LabeledFields ==
    [u \in {SanitizeTable[m] : m \in FormMessages} |->
        [name      |-> GroupOrNone(LabelSearch(u, "name:", {"dob:", "id:"})),
         dob       |-> GroupOrNone(LabelSearch(u, "dob:", {"name:", "id:"})),
         id_number |-> GroupOrNone(LabelSearch(u, "id:", {"name:", "dob:"}))]]

\* the fields of `claim` that `labeled` found are the ones it found
LabelsTakePrecedence(labeled, claim) ==
    \A field \in {"name", "dob", "id_number"} :
        ~Falsy(labeled[field]) => claim[field] = labeled[field]

\* two parsed claims name the same fields: each field is missing in both or
\* has the same value in both
SameClaim(a, b) ==
    \A field \in {"name", "dob", "id_number"} :
        \/ Falsy(a[field]) /\ Falsy(b[field])
        \/ a[field] = b[field]

\* this step's turn ends as the call `out` does: the same response, pending
\* intent, attempt count, verified identifier and audit events
SameOutcome(out) ==
    /\ StepResponse = out.response
    /\ session'.pending_intent = out.session.pending_intent
    /\ session'.verification_attempts = out.session.verification_attempts
    /\ session'.verified_customer_id = out.session.verified_customer_id
    /\ StepEvents = out.audit

\* C31: for every name, date of birth and id value with no comma, newline or
\* field marker, the labeled message "Name: n DOB: d ID: i" and the
\* comma-separated message "n, d, i" are parsed into the same claim, so that
\* from the same session state both yield the same outcome, response and
\* state change; a field found through its label takes precedence over the
\* positional value for that field.
C31_FormsParseAlike ==
    [][ProcessStep =>
        /\ StepMessage \in DOMAIN LabeledFields =>
                LabelsTakePrecedence(LabeledFields[StepMessage], ClaimTable[StepMessage])
        /\ \A v \in ClaimValues :
                StepMessage = SanitizeTable[LabeledForm(v)] =>
                    /\ is_verification_pending(session) =>
                            SameClaim(ClaimTable[StepMessage],
                                      ClaimTable[SanitizeTable[CommaForm(v)]])
                    /\ SameOutcome(process_message(customers, session, CommaForm(v)))]_vars

(***************************************************************************)
(* C32: the life of a session in the store                                 *)
(***************************************************************************)
\* the session identifier was issued and its session has been deleted
Deleted(session_id) == session_id \in DOMAIN sessions /\ session_id \notin SESSION_STORE

\* the request has been answered 404
NotFound(request) ==
    /\ request.pc \in {"done", "delete_done", "history_done"}
    /\ request.status = 404

\* this step is the arrival of a request
Arrival == Len(requests') = Len(requests) + 1

\* this step is a session creation: one identifier that was never issued
\* enters the store with a new session, and no request is served by the step
Creation ==
    /\ requests' = requests
    /\ \E session_id \in SessionIds \ DOMAIN sessions :
            /\ SESSION_STORE' = SESSION_STORE \cup {session_id}
            /\ sessions' = sessions @@ (session_id :> NewSession(session_id))

\* C32: after a session identifier is deleted, every later chat, history or
\* delete request for it is answered 'not found'; no request other than
\* session creation adds a session to the store; deleting one session leaves
\* every other session of the store unchanged.
C32_SessionLifetime ==
    [][/\ \A session_id \in SessionIds :
            (Deleted(session_id) /\ Arrival
                /\ requests'[Len(requests')].session_id = session_id) =>
                    NotFound(requests'[Len(requests')])
       /\ ~(SESSION_STORE' \subseteq SESSION_STORE) => Creation
       /\ \A session_id \in SESSION_STORE \ SESSION_STORE' :
            \A other \in DOMAIN sessions \ {session_id} :
                /\ other \in SESSION_STORE' <=> other \in SESSION_STORE
                /\ sessions'[other] = sessions[other]]_vars

\* the second request deleted a session, the third request, for the same
\* session, was answered 404, and another session is still in the store
C32_Witness ==
    /\ Len(requests) = MaxStoreRequests
    /\ Deleted(requests[3].session_id)
    /\ requests[2].pc = "delete_done" /\ requests[2].status = 200
    /\ requests[3].session_id = requests[2].session_id
    /\ NotFound(requests[3])
    /\ SESSION_STORE # {}

(***************************************************************************)
(* C33: the pending intent of a session                                    *)
(***************************************************************************)
\* the session waits for no claim, or it is unverified and the intent it
\* keeps is one of the four sensitive intents
PendingIsSensitiveAndUnverified(s) ==
    s.pending_intent # Null =>
        /\ s.verified_customer_id = Null
        /\ s.pending_intent \in {Intent.BANK_ACCOUNT, Intent.ACCOUNT_BALANCE,
                                 Intent.LOAN_BALANCE, Intent.OPENING_BRANCH}

\* C33: in every reachable state of a session a non-null pending intent
\* implies a null verified identifier, and the pending intent, when set, is
\* one of the four sensitive intents.
C33_PendingImpliesUnverified == PendingIsSensitiveAndUnverified(session)

\* the session was verified in an earlier turn, was reset, and now waits for a
\* claim for the opening branch
C33_Witness ==
    /\ session.pending_intent = Intent.OPENING_BRANCH
    /\ session.verified_customer_id = Null
    /\ \E k \in 1..Len(session.conversation_history) :
            session.conversation_history[k].assistant[1] = SuccessPrefix

(***************************************************************************)
(* C34: the number of claims a session tests between two resets of its     *)
(* attempt count                                                           *)
(***************************************************************************)
\* verify_customer was called in this step: line 135 is followed by exactly
\* one of the two audit events, the failure one (139-147) or the success one
\* (165-170)
VerifyInvoked ==
    \/ StepLogs(AuditEventType.VERIFICATION_FAILURE)
    \/ StepLogs(AuditEventType.VERIFICATION_SUCCESS)

\* the step is one of the two resets of the attempt count
ResetsCount ==
    \/ StepLogs(AuditEventType.VERIFICATION_SUCCESS)
    \/ session' = reset_verification(session)

\* C34: between two consecutive resets of the attempt count (a verification
\* success or a reset_verification call) verify is invoked at most three
\* times.  Every step that invokes verify starts with a count below the
\* maximum and, unless it is a reset, ends with the count one higher, and the
\* count goes down in a reset only: the count is at least the number of verify
\* calls since the last reset, and no call is made at a count of three.
C34_VerifyBudget ==
    [][/\ VerifyInvoked =>
            /\ session.verification_attempts < max_verification_attempts
            /\ ~ResetsCount =>
                    session'.verification_attempts = session.verification_attempts + 1
       /\ session'.verification_attempts < session.verification_attempts => ResetsCount]_vars

\* three claims were tested and failed; after the lockout the session asked a
\* sensitive query again, and its fourth claim was rejected untested
C34_Witness ==
    /\ Len(session.conversation_history) = 6
    /\ session.conversation_history[6].user = "John Doe, 1990/01/01, B123456789"
    /\ "assistant" \in DOMAIN session.conversation_history[6]
    /\ session.conversation_history[6].assistant = LockoutResponse
    /\ session.verification_attempts = max_verification_attempts + 1
    /\ Cardinality({k \in 1..Len(audit_log) :
            audit_log[k].event_type = AuditEventType.VERIFICATION_FAILURE}) = 3
    /\ \A k \in 1..Len(audit_log) :
            audit_log[k].event_type # AuditEventType.VERIFICATION_SUCCESS

(***************************************************************************)
(* C35: requests the transport layer rejects                               *)
(***************************************************************************)
\* the trimmed message is empty, longer than 5000 characters, or holds a NUL
\* character
TransportInvalid(message) ==
    \/ message = ""
    \/ Len(message) > 5000
    \/ Contains(message, NUL)

\* the request was answered 400 or 404 without a step of process_message
Rejected(request) ==
    /\ request.pc = "done"
    /\ request.user_message = Null
    /\ request.status \in {400, 404}

\* C35: a chat request whose message is empty after trimming, longer than
\* 5000 characters or holds a NUL character, or whose session identifier is
\* not in the session store, is rejected before process_message is called:
\* its arrival leaves every session object and the audit trail as they were,
\* and the request takes no step after it.
C35_RejectedBeforeProcessing ==
    [][/\ (/\ Len(requests') = Len(requests) + 1
           /\ requests'[Len(requests')].pc \in {"done", "append"}
           /\ \/ TransportInvalid(requests'[Len(requests')].message)
              \/ requests'[Len(requests')].session_id \notin SESSION_STORE) =>
                /\ Rejected(requests'[Len(requests')])
                /\ sessions' = sessions
                /\ audit_log' = audit_log
       /\ \A r \in 1..Len(requests) :
            (requests[r].pc = "done" /\ requests[r].user_message = Null) =>
                requests'[r] = requests[r]]_vars

\* a session that awaits a claim was sent the query with a NUL character and
\* a message of 5001 letters: both were answered 400, and the session still
\* waits with no attempt counted and one turn in its log
C35_Witness ==
    /\ Len(requests) = MaxStoreRequests
    /\ requests[1].pc = "done" /\ requests[1].status = 200
    /\ requests[2].session_id = requests[1].session_id
    /\ requests[3].session_id = requests[1].session_id
    /\ requests[2].message = "What is my account balance?" \o NUL
    /\ requests[3].message = LongMessage
    /\ Rejected(requests[2]) /\ requests[2].status = 400
    /\ Rejected(requests[3]) /\ requests[3].status = 400
    /\ requests[1].session_id \in SESSION_STORE
    /\ sessions[requests[1].session_id].pending_intent = Intent.ACCOUNT_BALANCE
    /\ sessions[requests[1].session_id].verification_attempts = 0
    /\ sessions[requests[1].session_id].verified_customer_id = Null
    /\ Len(sessions[requests[1].session_id].conversation_history) = 1

(***************************************************************************)
(* C36: the id-mismatch reason of verify_customer                          *)
(***************************************************************************)
\* every record of the directory is kept under its own id number
KeyedByOwnId(directory) ==
    \A id \in DOMAIN directory : directory[id].id_number = id

\* the claim passes the id-number format check of line 29, which is reached
\* after the name and the date of birth have passed theirs
PassesFormatChecks(name, dob, id_number) ==
    /\ validate_name(name)
    /\ validate_dob(dob)
    /\ validate_id_number(id_number)

\* C36: with a directory whose records are keyed by their own id number,
\* verify never returns the reason "ID number does not match"; every claim
\* that passes the id-number format check ends with "Customer ID not found",
\* "Name does not match", "Date of birth does not match" or success.
C36_NoIdMismatch ==
    (call.fn = "verify_customer" /\ KeyedByOwnId(ManagerRecords[call.args[1]])) =>
        /\ call.result # <<FALSE, "ID number does not match">>
        /\ PassesFormatChecks(call.args[2], call.args[3], call.args[4]) =>
                call.result \in { <<FALSE, "Customer ID not found">>,
                                  <<FALSE, "Name does not match">>,
                                  <<FALSE, "Date of birth does not match">>,
                                  <<TRUE, call.args[4]>> }

\* the stored record was found under the id number of the claim, its name and
\* date of birth matched, and the comparison of line 42 found the id numbers
\* equal
C36_Witness ==
    /\ call.fn = "verify_customer"
    /\ KeyedByOwnId(ManagerRecords[call.args[1]])
    /\ call.args[4] \in DOMAIN ManagerRecords[call.args[1]]
    /\ call.args[2] = "Tony Stark"
    /\ call.result = <<TRUE, call.args[4]>>

(***************************************************************************)
(* C37: a claim whose id number has the letter in the other case           *)
(***************************************************************************)
\* the id number is no key of the directory but differs from one only in the
\* case of its letter
CaseVariantOfStoredId(directory, id_number) ==
    /\ id_number \notin DOMAIN directory
    /\ \E id \in DOMAIN directory :
            /\ Len(id) = Len(id_number)
            /\ Upper(id) = Upper(id_number)
            /\ SubSeq(id, 2, Len(id)) = SubSeq(id_number, 2, Len(id_number))

\* a session awaiting a claim, with attempts left, is sent a complete claim
TestsClaim(claim) ==
    /\ is_verification_pending(session)
    /\ session.verification_attempts < max_verification_attempts
    /\ MissingFields(claim) = 0

\* C37: a claim (with well-formed name and date of birth) whose id number
\* differs from a stored customer's identifier only in the case of its letter
\* passes the id-number format check but never
\* verifies: the reason logged and reported is "Customer ID not found" (or the
\* lockout, on the last attempt), the session stays unverified, and the
\* attempt is counted.
C37_CaseVariantIdNotFound ==
    [][ProcessStep => \A u \in {StepMessage} :
          (/\ TestsClaim(ClaimTable[u])
           /\ CaseVariantOfStoredId(customers, ClaimTable[u].id_number)
           /\ validate_name(ClaimTable[u].name)
           /\ validate_dob(ClaimTable[u].dob)) =>
                /\ validate_id_number(ClaimTable[u].id_number)
                /\ session'.verified_customer_id = Null
                /\ session'.verification_attempts = session.verification_attempts + 1
                /\ Len(StepEvents) = 1
                /\ StepEvents[1].event_type = AuditEventType.VERIFICATION_FAILURE
                /\ StepEvents[1].details.reason = "Customer ID not found"
                /\ StepResponse =
                      IF session'.verification_attempts < max_verification_attempts
                      THEN FailureResponse("Customer ID not found",
                               max_verification_attempts - session'.verification_attempts)
                      ELSE LockoutResponse]_vars

\* the session asked for its balance and then claimed three times the stored
\* name and date of birth with the id number a234763849: each claim was
\* tested, not found and counted, and the third ended with the lockout
C37_Witness ==
    /\ Len(session.conversation_history) = 4
    /\ \A k \in 2..4 :
            /\ session.conversation_history[k].user = "Tony Stark, 1996/09/10, a234763849"
            /\ "assistant" \in DOMAIN session.conversation_history[k]
    /\ session.conversation_history[2].assistant = FailureResponse("Customer ID not found", 2)
    /\ session.conversation_history[3].assistant = FailureResponse("Customer ID not found", 1)
    /\ session.conversation_history[4].assistant = LockoutResponse
    /\ session.verification_attempts = 3
    /\ session.verified_customer_id = Null
    /\ session.pending_intent = Null

(***************************************************************************)
(* C38: the general-help intent                                            *)
(***************************************************************************)
\* the intents that have a keyword list
KeywordIntents ==
    { Intent.SERVICE_ITEMS, Intent.BRANCH_INFO, Intent.LOAN_PROCESS,
      Intent.ACCOUNT_OPENING, Intent.BANK_ACCOUNT, Intent.ACCOUNT_BALANCE,
      Intent.LOAN_BALANCE, Intent.OPENING_BRANCH }

\* the response to a message classified as `intent` by a session in Idle: the
\* fallback text, the static block of a public keyword intent, or, for a
\* sensitive intent, the verification prompt of an unverified session
AnsweredAs(intent, response) ==
    /\ intent \in KeywordIntents \cup {Intent.UNKNOWN}
    /\ intent = Intent.UNKNOWN => response = UnknownResponse
    /\ intent \in {Intent.SERVICE_ITEMS, Intent.BRANCH_INFO,
                   Intent.LOAN_PROCESS, Intent.ACCOUNT_OPENING} =>
            response = handle_public_query(intent)
    /\ (is_sensitive_query(intent) /\ session.verified_customer_id = Null) =>
            response = VerificationPrompt

\* C38: classify never returns the general-help intent, so no message makes
\* process_message return the general-help menu; every message in Idle is
\* answered as one of the four public keyword intents, one of the four
\* sensitive intents, or Unknown.
C38_NeverGeneralHelp ==
    [][/\ call'.fn = "classify" =>
            call'.result.intent \in KeywordIntents \cup {Intent.UNKNOWN}
       /\ ProcessStep =>
            /\ ResponseText(StepResponse) # format_general_help
            /\ Idle => AnsweredAs(ClassifyTable[StepMessage].intent, StepResponse)]_vars

\* the classifier was called with the one word "help" and named the service
\* items, and the session that was sent "general help" got the service block
C38_Witness ==
    /\ call.fn = "classify"
    /\ call.args = "help"
    /\ call.result.intent = Intent.SERVICE_ITEMS
    /\ Len(session.conversation_history) = 2
    /\ session.conversation_history[1].user = "hello"
    /\ session.conversation_history[1].assistant = UnknownResponse
    /\ session.conversation_history[2].user = "general help"
    /\ session.conversation_history[2].assistant = handle_public_query(Intent.SERVICE_ITEMS)

====
